---- MODULE Spec2Model ----
(***************************************************************************)
(* Model of salt/cloud/clouds/linode.py: the Linode cloud driver with its  *)
(* two implementations, LinodeAPIv4 (REST) and LinodeAPIv3 (RPC, jobs).    *)
(*                                                                         *)
(* One driver call runs per behaviour.  An action is the stretch of a      *)
(* method from one remote call to the next; the provider's answer to each  *)
(* remote call is an input of the action.  `reqs' is the log of requests   *)
(* handed to the transport, `events' the log of fired event tags.         *)
(*                                                                         *)
(* Python semantics that decide the control flow are modelled as Python    *)
(* defines them: a call with an unknown keyword or with one positional     *)
(* argument too many raises TypeError; `x is "<string literal>"' is an     *)
(* identity test, whose result for equal strings is left to the            *)
(* interpreter and is a free choice here (`x is not 0' on an int is the    *)
(* value test: every interpreter shares the small ints).  Line 598, the    *)
(* entry `"linode_id", linode_id,' of a dict display, does not parse; it   *)
(* is read as the key/value pair it spells, since otherwise no line of the *)
(* module has any behaviour.                                               *)
(***************************************************************************)
EXTENDS Integers, Sequences, FiniteSets, TLC

(***************************************************************************)
(* Bounds of the model.                                                    *)
(***************************************************************************)
MaxShort == 3          \* short candidate names: every string up to this length
PadBase == 47          \* long candidate names start with PadBase..PadBase+2 letters
MaxProbes == 3         \* cap on the unsatisfied probes of one v4 wait that are explored
MaxErrors == 2         \* longest ERRORARRAY of a v3 response
MaxGap == 3            \* longest time (seconds) between two direct transport calls
MaxClock == 6          \* direct transport calls are explored up to this second
MaxNodes == 2          \* most instances in the account the provider reports
MaxAddrs == 2          \* most addresses in one answer of the provider
MaxJobs == 2           \* most jobs in one job listing of the provider

(***************************************************************************)
(* Program constants.                                                      *)
(***************************************************************************)
MinNameLen == 3
MaxNameLen == 48
DefaultPollInterval == 500
DefaultTimeout == 120
V3Interval == 5
V3Timeout == 300

NONE == "None"

(***************************************************************************)
(* Character classes of the label regex and the candidate names.           *)
(***************************************************************************)
Lower == {"a","b","c","d","e","f","g","h","i","j","k","l","m",
          "n","o","p","q","r","s","t","u","v","w","x","y","z"}
Upper == {"A","B","C","D","E","F","G","H","I","J","K","L","M",
          "N","O","P","Q","R","S","T","U","V","W","X","Y","Z"}
Digit == {"0","1","2","3","4","5","6","7","8","9"}
AlNum == Lower \cup Upper \cup Digit
Inner == AlNum \cup {"_", "-"}

NameChars == {"a", "-", "!"}

Rep(c, n) == [i \in 1..n |-> c]

SeqsUpTo(S, n) == UNION {[1..k -> S] : k \in 0..n}

ShortNames == SeqsUpTo(NameChars, MaxShort)

LongNames ==
    {Rep("a", k) \o t : t \in SeqsUpTo(NameChars, 1), k \in PadBase..(PadBase + 2)}

Names == ShortNames \cup LongNames

(***************************************************************************)
(* re.match(r"^[a-zA-Z0-9][A-Za-z0-9_-]*[a-zA-Z0-9]$", name): the first    *)
(* character, a run of inner characters, a last character, and then the    *)
(* end of the string or a single newline that ends the string.             *)
(***************************************************************************)
RegexBody(s) ==
    /\ Len(s) >= 2
    /\ s[1] \in AlNum
    /\ s[Len(s)] \in AlNum
    /\ \A i \in 2..(Len(s) - 1) : s[i] \in Inner

RegexMatch(s) ==
    \/ RegexBody(s)
    \/ /\ Len(s) >= 3
       /\ s[Len(s)] = "\n"
       /\ RegexBody(SubSeq(s, 1, Len(s) - 1))

_validate_name_nomax(name) ==
    IF Len(name) < MinNameLen THEN FALSE
    ELSE RegexMatch(name)

_validate_name(name) ==
    IF Len(name) < MinNameLen \/ Len(name) > MaxNameLen THEN FALSE
    ELSE IF ~RegexMatch(name) THEN FALSE
    ELSE TRUE

(***************************************************************************)
(* Inputs: the provider configuration and the profile handed to create.    *)
(***************************************************************************)
PollIntervals == {DefaultPollInterval, 120000, 240000}
RootSizes == {-1, 0, 20000, 25500, 26000}
SwapSizes == {0, 256}
DiskCaps == {25600}
SrcType == "sA"
SrcRegion == "lA"

Profile(clonefrom, size, location, disk_given, disk_size, swap, priv, ssh) ==
    [clonefrom |-> clonefrom, size |-> size, location |-> location,
     disk_given |-> disk_given, disk_size |-> disk_size, swap |-> swap,
     assign_private_ip |-> priv, ssh_interface |-> ssh]

SshInterfaces == {"public_ips", "private_ips"}

\* profiles that clone: with and without their own size and location; a
\* disk_size may be present as well
CloneProfiles ==
    {Profile("src", size, location, dg, IF dg THEN 20000 ELSE 0, 256, priv, ssh) :
        size \in {NONE, "sB"}, location \in {NONE, "lB"}, dg \in BOOLEAN,
        priv \in BOOLEAN, ssh \in SshInterfaces}

\* fresh profiles without disk_size (the provider makes the disks)
ImplicitProfiles ==
    {Profile(NONE, "sB", "lB", FALSE, 0, swap, priv, ssh) :
        swap \in SwapSizes, priv \in BOOLEAN, ssh \in SshInterfaces}

\* fresh profiles with disk_size (the driver makes the disks)
ExplicitProfiles ==
    {Profile(NONE, "sB", "lB", TRUE, root, swap, priv, ssh) :
        root \in RootSizes, swap \in SwapSizes, priv \in BOOLEAN,
        ssh \in SshInterfaces}

VmConfigs == CloneProfiles \cup ImplicitProfiles \cup ExplicitProfiles

NoVm ==
    [name |-> <<>>, clonefrom |-> NONE, size |-> NONE, location |-> NONE,
     disk_given |-> FALSE, disk_size |-> 0, swap |-> 0,
     assign_private_ip |-> FALSE, ssh_interface |-> "public_ips",
     ssh_host |-> NONE]

WithName(c, name) ==
    [name |-> name, clonefrom |-> c.clonefrom, size |-> c.size,
     location |-> c.location, disk_given |-> c.disk_given,
     disk_size |-> c.disk_size, swap |-> c.swap,
     assign_private_ip |-> c.assign_private_ip,
     ssh_interface |-> c.ssh_interface, ssh_host |-> NONE]

NoLocals ==
    [linode_id |-> NONE, use_private_ip |-> FALSE, assign_private_ip |-> FALSE,
     root_disk_size |-> 0, swap_size |-> 0, disk_size |-> 0,
     src_id |-> NONE, src_type |-> NONE, src_region |-> NONE,
     plan_id |-> NONE, datacenter_id |-> NONE, job_id |-> NONE,
     result |-> NONE, STATUS |-> 99, check_running |-> FALSE]

NoWait == [target |-> NONE, times |-> 0, curr |-> 1, probes |-> 0, ret |-> NONE,
           getter |-> NONE, result |-> NONE, seen |-> FALSE, begun |-> FALSE]

Req(kind, id, a, b, n, label, f) ==
    [kind |-> kind, id |-> id, a |-> a, b |-> b, n |-> n, label |-> label, f |-> f]

(***************************************************************************)
(* Inputs of the transport.  A v3 response either was not obtained         *)
(* (http.query failed) or is a decoded body that may carry an ERRORARRAY   *)
(* of messages; ratelimit_sleep is the pacing interval of the provider     *)
(* configuration (default 0, line 974).                                    *)
(***************************************************************************)
AuthMsg == "Authentication failed"
Msgs == {AuthMsg, "m1", "m2"}
ErrorArrays == SeqsUpTo(Msgs, MaxErrors)

V3Responses ==
    {[answered |-> TRUE, has |-> TRUE, ERRORARRAY |-> e] : e \in ErrorArrays}
    \cup {[answered |-> TRUE, has |-> FALSE, ERRORARRAY |-> <<>>],
          [answered |-> FALSE, has |-> FALSE, ERRORARRAY |-> <<>>]}

RateLimits == {0, 2}
Gaps == 0..MaxGap
DriverGaps == {0, 1}
Durations == {0, 1}
Methods == {"GET", "POST", "DELETE"}

NoQuery ==
    [api |-> NONE, method |-> NONE, resp |-> NONE, answered |-> FALSE,
     has |-> FALSE, ERRORARRAY |-> <<>>,
     raised |-> FALSE, exc |-> NONE, msg |-> <<>>, val |-> NONE,
     lastcall |-> 0, now |-> 0, slept |-> 0, sent |-> 0]

(***************************************************************************)
(* Inputs of the lookups and listings: the account the provider reports.   *)
(* An instance has its id (a positive integer, its position in the         *)
(* account), its label, its status and, in v4, its ipv4 list.  Labels may  *)
(* repeat: no line of the driver relies on the provider keeping them       *)
(* unique.  In v3 the status is a code of LINODE_STATUS (lines 87-95) or a *)
(* code the table lacks, and addresses are separate records with LINODEID, *)
(* ISPUBLIC and IPADDRESS.                                                 *)
(***************************************************************************)
NodeLabels == {"n1", "n2"}
PublicAddrs == {"45.33.0.1", "45.33.0.2"}
PrivateAddrs == {"192.168.128.1"}
Addrs == PublicAddrs \cup PrivateAddrs
NodeStatuses == {"running", "offline"}
StatusCodes == {1, 2, 7}

Distinct(seq) == \A i, j \in 1..Len(seq) : i # j => seq[i] # seq[j]

AddrLists == {l \in SeqsUpTo(Addrs, MaxAddrs) : Distinct(l)}

NodeIps == {<<>>, <<"192.168.128.1", "45.33.0.1">>}

Node(id, label, status, ipv4) ==
    [id |-> id, label |-> label, status |-> status, ipv4 |-> ipv4,
     image |-> "linode/debian10", type |-> "g6-nanode-1"]

\* the accounts of n instances; the instance at position i has id i
AccountsOf(n, statuses, ips) ==
    {[i \in 1..n |-> Node(i, l[i], st[i], ip[i])] :
        l \in [1..n -> NodeLabels], st \in [1..n -> statuses], ip \in [1..n -> ips]}

V4Accounts == UNION {AccountsOf(n, NodeStatuses, NodeIps) : n \in 0..MaxNodes}
V3Accounts == UNION {AccountsOf(n, StatusCodes, {<<>>}) : n \in 0..MaxNodes}

\* accounts that differ in nothing but their labels
V4Labelled == UNION {AccountsOf(n, {"running"}, {<<>>}) : n \in 0..MaxNodes}
V3Labelled == UNION {AccountsOf(n, {1}, {<<>>}) : n \in 0..MaxNodes}

IpRecord(id, pub, addr) == [LINODEID |-> id, ISPUBLIC |-> pub, IPADDRESS |-> addr]

V3IpLists ==
    UNION {{[i \in 1..Len(l) |-> IpRecord(id[i], pub[i], l[i])] :
               id \in [1..Len(l) -> 1..MaxNodes], pub \in [1..Len(l) -> {0, 1}]} :
           l \in AddrLists}

ListFns == {"list_nodes_min", "list_nodes", "list_nodes_full"}

NoEntries == [l \in {} |-> NONE]

NoArgs ==
    [name |-> FALSE, linode_id |-> FALSE, config_id |-> FALSE, location |-> FALSE,
     size |-> FALSE, datacenter_id |-> FALSE, plan_id |-> FALSE,
     root_disk_id |-> FALSE, swap_disk_id |-> FALSE]

NoSnap ==
    [nodes |-> <<>>, instances |-> <<>>, fn |-> NONE, returned |-> {},
     ret |-> [f \in ListFns |-> NoEntries], i |-> 0, acc |-> NoEntries,
     name |-> NONE, linode_id |-> 0, resp |-> NONE, found |-> 0,
     raw |-> <<>>, public_ips |-> <<>>, private_ips |-> <<>>, args |-> NoArgs, status_id |-> 0]

VARIABLES
    api,            \* the implementation _get_cloud_interface selects
    poll_interval,  \* the configured poll_interval (milliseconds)
    op,             \* the driver call in progress
    pc,             \* the remote call the driver is about to make
    vm,             \* the profile handed to create (vm_)
    L,              \* the local variables of the call
    reqs,           \* requests handed to the transport, in order
    events,         \* event tags fired, in order
    outcome,        \* how the call ended
    wait,           \* the wait loop in progress
    failedAt,       \* position in reqs of the first request that failed, or 0
    ratelimit_sleep,\* the configured ratelimit_sleep (seconds), read by v3 _query
    LASTCALL,       \* the module global: epoch second of the last v3 call that succeeded
    clock,          \* the wall clock (epoch seconds since the module was loaded)
    Q,              \* the call of _query made directly: its inputs and what it gave back
    snap            \* the account the provider reports, the arguments of a lookup or
                    \* listing call, and what the call handed back

vars == <<api, poll_interval, op, pc, vm, L, reqs, events, outcome, wait, failedAt,
          ratelimit_sleep, LASTCALL, clock, Q, snap>>

Init ==
    /\ api \in {"v3", "v4"}
    /\ poll_interval \in (IF api = "v4" THEN PollIntervals ELSE {DefaultPollInterval})
    /\ op = "idle"
    /\ pc = "idle"
    /\ vm = NoVm
    /\ L = NoLocals
    /\ reqs = <<>>
    /\ events = <<>>
    /\ outcome = [kind |-> "none", val |-> NONE]
    /\ wait = NoWait
    /\ failedAt = 0
    /\ ratelimit_sleep \in (IF api = "v3" THEN RateLimits ELSE {0})
    /\ LASTCALL = 0
    /\ clock = 0
    /\ Q = NoQuery
    /\ snap = NoSnap

Send(q) == reqs' = Append(reqs, q)

Failed(r) == failedAt' = IF failedAt = 0 /\ r # "ok" THEN Len(reqs) + 1 ELSE failedAt

Finish(k, v) ==
    /\ pc' = "done"
    /\ outcome' = [kind |-> k, val |-> v]

Goto(p) ==
    /\ pc' = p
    /\ outcome' = outcome

(***************************************************************************)
(* LinodeAPIv3._query lines 1013-1024: the loop over a non-empty           *)
(* ERRORARRAY.  The first "Authentication failed" raises                   *)
(* SaltCloudSystemExit at once; otherwise the messages are collected and   *)
(* SaltCloudException is raised with ", ".join(error_list).                *)
(***************************************************************************)
RECURSIVE Join(_)
Join(list) ==
    IF Len(list) <= 1 THEN list
    ELSE <<list[1], ", ">> \o Join(Tail(list))

v3_error_loop_firstonly(errs, i, error_list) ==
    IF errs[1] = AuthMsg
    THEN [exc |-> "AuthError", msg |-> <<"Linode API Key is expired or invalid">>]
    ELSE [exc |-> "ProviderError", msg |-> Join(errs)]

RECURSIVE v3_error_loop(_, _, _)
v3_error_loop(errs, i, error_list) ==
    IF i > Len(errs)
    THEN [exc |-> "ProviderError", msg |-> Join(error_list)]
    ELSE IF errs[i] = AuthMsg
    THEN [exc |-> "AuthError", msg |-> <<"Linode API Key is expired or invalid">>]
    ELSE v3_error_loop(errs, i + 1, Append(error_list, errs[i]))

(***************************************************************************)
(* LinodeAPIv3._query lines 999-1029: what the call gives back for a       *)
(* response.  A failure inside http.query propagates.                      *)
(***************************************************************************)
v3_query(resp) ==
    IF ~resp.answered
    THEN [raised |-> TRUE, exc |-> "TransportError", msg |-> <<>>, val |-> NONE]
    ELSE IF resp.has /\ resp.ERRORARRAY # <<>>
    THEN LET e == v3_error_loop(resp.ERRORARRAY, 1, <<>>)
         IN [raised |-> TRUE, exc |-> e.exc, msg |-> e.msg, val |-> NONE]
    ELSE [raised |-> FALSE, exc |-> NONE, msg |-> <<>>, val |-> "body"]

(***************************************************************************)
(* LinodeAPIv3._query lines 994-997: the pacing sleep, and line 1026: the  *)
(* global LASTCALL after the call (a call that raised never reaches it).   *)
(***************************************************************************)
v3_ratelimit(lastcall, now, ratelimit) == IF lastcall >= now THEN ratelimit ELSE 0

v3_lastcall_always(raised, lastcall, completed) == completed

v3_lastcall(raised, lastcall, completed) == IF raised THEN lastcall ELSE completed

(***************************************************************************)
(* The time a v3 _query call takes: `gap' seconds have passed since the    *)
(* clock was last read, the pacing sleep, and `dur' seconds for the        *)
(* request itself.                                                         *)
(***************************************************************************)
V3Paced(raised, gap, dur) ==
    LET now == clock + gap
        completed == now + v3_ratelimit(LASTCALL, now, ratelimit_sleep) + dur
    IN /\ clock' = completed
       /\ LASTCALL' = v3_lastcall(raised, LASTCALL, completed)

(***************************************************************************)
(* _query called directly, as the listing functions (avail_images,         *)
(* avail_locations, avail_sizes, ...) call it: one call, any response.     *)
(* Calls may follow one another in the same process.                       *)
(***************************************************************************)
V3QueryCall ==
    /\ api = "v3" /\ op \in {"idle", "_query"}
    /\ op' = "_query"
    /\ \E resp \in V3Responses, gap \in Gaps, dur \in Durations :
         LET q == v3_query(resp)
             now == clock + gap
             slept == v3_ratelimit(LASTCALL, now, ratelimit_sleep)
         IN /\ now + slept + dur <= MaxClock
            /\ V3Paced(q.raised, gap, dur)
            /\ Q' = [api |-> "v3", method |-> "GET", resp |-> NONE,
                     answered |-> resp.answered, has |-> resp.has, ERRORARRAY |-> resp.ERRORARRAY,
                     raised |-> q.raised, exc |-> q.exc, msg |-> q.msg, val |-> q.val,
                     lastcall |-> LASTCALL, now |-> now, slept |-> slept,
                     sent |-> now + slept]
            /\ Finish(IF q.raised THEN "raise" ELSE "return",
                      IF q.raised THEN q.exc ELSE q.val)
    /\ UNCHANGED <<api, poll_interval, ratelimit_sleep, vm, L, reqs, events, wait,
                   failedAt, snap>>

(***************************************************************************)
(* LinodeAPIv4._query.  requests.request hands back the response of any    *)
(* status, so a provider error ("apierr") comes back decoded as an         *)
(* ordinary value; a connection failure ("neterr") propagates; an          *)
(* HTTPError is caught and a SaltCloudSystemExit object is *returned* when *)
(* the body has an error envelope ("httperr_env"), and otherwise the code  *)
(* falls through to result.json() with result = None ("httperr_bare").     *)
(***************************************************************************)
V4Resp == {"ok", "apierr", "neterr", "httperr_env", "httperr_bare"}

V4Query(r) ==
    CASE r = "ok"           -> [raised |-> FALSE, val |-> "body", exc |-> NONE]
      [] r = "apierr"       -> [raised |-> FALSE, val |-> "errbody", exc |-> NONE]
      [] r = "httperr_env"  -> [raised |-> FALSE, val |-> "excobj", exc |-> NONE]
      [] r = "neterr"       -> [raised |-> TRUE, val |-> NONE, exc |-> "ConnectionError"]
      [] r = "httperr_bare" -> [raised |-> TRUE, val |-> NONE, exc |-> "AttributeError"]

(***************************************************************************)
(* LinodeAPIv4._query with its method, lines 359 and 379-382:              *)
(* decode = method is not 'DELETE'.  An undecoded call hands back the      *)
(* Response object itself, whatever its status, and None when the          *)
(* HTTPError branch fell through.                                          *)
(***************************************************************************)
v4_query(r, decode) ==
    IF decode \/ r \in {"httperr_env", "neterr"} THEN V4Query(r)
    ELSE CASE r = "ok"           -> [raised |-> FALSE, val |-> "response", exc |-> NONE]
           [] r = "apierr"       -> [raised |-> FALSE, val |-> "errresponse", exc |-> NONE]
           [] r = "httperr_bare" -> [raised |-> FALSE, val |-> NONE, exc |-> NONE]

(***************************************************************************)
(* _query called directly (avail_images, avail_locations, ...): one call   *)
(* with any method and any response.  `same' is whether the method string  *)
(* is the very object of the literal 'DELETE' (line 359 tests identity).   *)
(***************************************************************************)
V4QueryCall ==
    /\ api = "v4" /\ op = "idle"
    /\ op' = "_query"
    /\ \E method \in Methods, r \in V4Resp, same \in BOOLEAN :
         LET decode == ~(method = "DELETE" /\ same)
             q == v4_query(r, decode)
         IN /\ Q' = [NoQuery EXCEPT !.api = "v4", !.method = method, !.resp = r,
                                    !.raised = q.raised, !.exc = q.exc, !.val = q.val]
            /\ Finish(IF q.raised THEN "raise" ELSE "return",
                      IF q.raised THEN q.exc ELSE q.val)
    /\ UNCHANGED <<api, poll_interval, ratelimit_sleep, LASTCALL, clock, vm, L, reqs,
                   events, wait, failedAt, snap>>

(***************************************************************************)
(* LinodeAPIv4.create_config up to its request: the parameter checks.      *)
(* An id that was not passed is NONE.                                      *)
(***************************************************************************)
v4_create_config_sends(name, linode_id, root_disk_id, swap_disk_id) ==
    /\ ~(name = NONE /\ linode_id = NONE)
    /\ \A item \in {name, linode_id, root_disk_id, swap_disk_id} : item # NONE

(***************************************************************************)
(* LinodeAPI.get_linode as LinodeAPIv4.boot calls it: which lookup is made *)
(* for kwargs {"linode_id": linode_id, "name": name}.                      *)
(***************************************************************************)
get_linode(linode_id, name) ==
    IF linode_id # NONE THEN "by_id"
    ELSE IF name # NONE THEN "by_name"
    ELSE "raise"

(***************************************************************************)
(* LinodeAPIv4.create, lines 499-533: validation, the creating event, the  *)
(* configuration reads and the choice of the path.                         *)
(***************************************************************************)
V4CreateBegin ==
    /\ api = "v4" /\ op = "idle"
    /\ op' = "create"
    /\ \E name \in Names :
         IF ~_validate_name(name)
         THEN /\ vm' = [NoVm EXCEPT !.name = name]
              /\ Finish("return", "False")
              /\ UNCHANGED <<L, events>>
         ELSE \E c \in VmConfigs, same \in BOOLEAN :
              LET use_private_ip == (c.ssh_interface = "private_ips") /\ same
                  assign_private_ip == c.assign_private_ip \/ use_private_ip
              IN /\ vm' = WithName(c, name)
                 /\ events' = Append(events, "creating")
                 /\ L' = [L EXCEPT !.use_private_ip = use_private_ip,
                                   !.assign_private_ip = assign_private_ip,
                                   !.swap_size = c.swap,
                                   !.root_disk_size = c.disk_size]
                 /\ Goto(IF c.clonefrom # NONE THEN "clone_lookup" ELSE "alloc")
    /\ UNCHANGED <<api, poll_interval, reqs, wait, failedAt>>
    /\ UNCHANGED <<ratelimit_sleep, LASTCALL, clock, Q, snap>>

(***************************************************************************)
(* The tail of create from line 568 to the boot request, for a path that   *)
(* makes no disks: result.get("id"), then boot -> get_linode.  boot's      *)
(* lookup is the next remote call.                                         *)
(***************************************************************************)
V4ToBoot(val) ==
    IF val = "excobj" THEN Finish("raise", "AttributeError") /\ L' = L
    ELSE LET linode_id == IF val = "body" THEN "new" ELSE NONE
         IN /\ L' = [L EXCEPT !.linode_id = linode_id, !.result = val]
            /\ IF get_linode(linode_id, NONE) = "raise"
               THEN Finish("raise", "SaltCloudSystemExit")
               ELSE Goto("boot_lookup")

(***************************************************************************)
(* create line 537: get_linode(name=clonefrom) -> _get_linode_by_name.     *)
(***************************************************************************)
V4CreateCloneLookup ==
    /\ api = "v4" /\ op = "create" /\ pc = "clone_lookup"
    /\ \E r \in V4Resp, found \in BOOLEAN :
         LET q == V4Query(r) IN
         /\ Send(Req("GET /linode/instances", NONE, NONE, NONE, 0, <<>>, FALSE))
         /\ Failed(r)
         /\ IF q.raised THEN Finish("raise", q.exc) /\ L' = L
            ELSE IF q.val = "excobj" THEN Finish("raise", "AttributeError") /\ L' = L
            ELSE IF q.val = "errbody" \/ ~found
                 THEN Finish("raise", "SaltCloudNotFound") /\ L' = L
            ELSE /\ L' = [L EXCEPT !.src_id = "src", !.src_type = SrcType,
                                   !.src_region = SrcRegion]
                 /\ Goto("clone_req")
    /\ UNCHANGED <<api, poll_interval, op, vm, events, wait>>
    /\ UNCHANGED <<ratelimit_sleep, LASTCALL, clock, Q, snap>>

(***************************************************************************)
(* create lines 538-550 and 568: the clone request (module-level clone ->  *)
(* LinodeAPIv4.clone), carrying the source's region and type.              *)
(***************************************************************************)
V4CloneArgs(spec, src) ==
    [location |-> src.src_region, size |-> src.src_type]

V4CreateCloneReq ==
    /\ api = "v4" /\ op = "create" /\ pc = "clone_req"
    /\ \E r \in V4Resp :
         LET q == V4Query(r)
             a == V4CloneArgs(vm, L)
         IN
         /\ Send(Req("POST clone", L.src_id, a.size, a.location, 0, <<>>, FALSE))
         /\ Failed(r)
         /\ IF q.raised THEN Finish("raise", q.exc) /\ L' = L
            ELSE IF L.assign_private_ip
                 THEN IF q.val = "body"
                      THEN L' = [L EXCEPT !.result = "body"] /\ Goto("clone_ip")
                      ELSE /\ Finish("raise", IF q.val = "errbody" THEN "KeyError"
                                              ELSE "TypeError")
                           /\ L' = L
            ELSE V4ToBoot(q.val)
    /\ UNCHANGED <<api, poll_interval, op, vm, events, wait>>
    /\ UNCHANGED <<ratelimit_sleep, LASTCALL, clock, Q, snap>>

V4CreateCloneIp ==
    /\ api = "v4" /\ op = "create" /\ pc = "clone_ip"
    /\ \E r \in V4Resp :
         LET q == V4Query(r) IN
         /\ Send(Req("POST /networking/ips", "new", NONE, NONE, 0, <<>>, FALSE))
         /\ Failed(r)
         /\ IF q.raised THEN Finish("raise", q.exc) /\ L' = L
            ELSE V4ToBoot(L.result)
    /\ UNCHANGED <<api, poll_interval, op, vm, events, wait>>
    /\ UNCHANGED <<ratelimit_sleep, LASTCALL, clock, Q, snap>>

(***************************************************************************)
(* create lines 553-568: the allocation request of the fresh path.  f is   *)
(* the private_ip parameter; booted = implicit_data_disk is n = 1.         *)
(***************************************************************************)
V4CreateAlloc ==
    /\ api = "v4" /\ op = "create" /\ pc = "alloc"
    /\ \E r \in V4Resp :
         LET q == V4Query(r)
             implicit_data_disk == ~vm.disk_given
         IN
         /\ Send(Req("POST /linode/instances", NONE, vm.size, vm.location,
                     IF implicit_data_disk THEN 1 ELSE 0, vm.name,
                     L.assign_private_ip))
         /\ Failed(r)
         /\ IF q.raised THEN Finish("raise", q.exc) /\ L' = L
            ELSE IF implicit_data_disk THEN V4ToBoot(q.val)
            ELSE IF q.val = "excobj" THEN Finish("raise", "AttributeError") /\ L' = L
            ELSE /\ L' = [L EXCEPT !.result = q.val,
                                   !.linode_id = IF q.val = "body" THEN "new" ELSE NONE]
                 /\ Goto("type_lookup")
    /\ UNCHANGED <<api, poll_interval, op, vm, events, wait>>
    /\ UNCHANGED <<ratelimit_sleep, LASTCALL, clock, Q, snap>>

(***************************************************************************)
(* create lines 573-586: the root size and the two capacity checks.        *)
(***************************************************************************)
v4_root_disk_size(root_disk_size, swap_size, disk_size) ==
    IF root_disk_size = 0 THEN disk_size - swap_size ELSE root_disk_size

v4_capacity_check(root_disk_size, swap_size, disk_size) ==
    IF root_disk_size + swap_size > disk_size THEN "Insufficient"
    ELSE IF root_disk_size <= 0 THEN "RootDisk"
    ELSE "ok"

(***************************************************************************)
(* create lines 572-589: _get_linode_type, the capacity checks and the     *)
(* test `swap_size is not 0'.                                              *)
(***************************************************************************)
V4CreateTypeLookup ==
    /\ api = "v4" /\ op = "create" /\ pc = "type_lookup"
    /\ \E r \in V4Resp, cap \in DiskCaps :
         LET q == V4Query(r)
             disk_size == IF q.val = "body" THEN cap ELSE 0
             root == v4_root_disk_size(L.root_disk_size, L.swap_size, disk_size)
             chk == v4_capacity_check(root, L.swap_size, disk_size)
             swap_is_not_0 == L.swap_size # 0
         IN
         /\ Send(Req("GET /linode/types", NONE, vm.size, NONE, 0, <<>>, FALSE))
         /\ Failed(r)
         /\ IF q.raised THEN Finish("raise", q.exc) /\ L' = L
            ELSE IF q.val = "excobj" THEN Finish("raise", "AttributeError") /\ L' = L
            ELSE /\ L' = [L EXCEPT !.disk_size = disk_size, !.root_disk_size = root]
                 /\ IF chk # "ok" THEN Finish("raise", chk)
                    ELSE Goto(IF swap_is_not_0 THEN "swap_disk" ELSE "root_disk")
    /\ UNCHANGED <<api, poll_interval, op, vm, events, wait>>
    /\ UNCHANGED <<ratelimit_sleep, LASTCALL, clock, Q, snap>>

(***************************************************************************)
(* _wait_for_entity_status lines 912-914: the attempt budget.  curr is     *)
(* only ever compared with times, so the quotient's fraction is immaterial.*)
(***************************************************************************)
v4_times(timeout, interval) == (timeout * 1000) \div interval

V4StartWait(getter, status, ret) ==
    wait' = [target |-> status, times |-> v4_times(DefaultTimeout, poll_interval),
             curr |-> 1, probes |-> 0, ret |-> ret, getter |-> getter,
             result |-> NONE, seen |-> FALSE, begun |-> FALSE]

(***************************************************************************)
(* create lines 590-594 -> _create_disk lines 888-900: the disk request,   *)
(* then _wait_for_disk_status starts.                                      *)
(***************************************************************************)
V4CreateDisk ==
    /\ api = "v4" /\ op = "create" /\ pc \in {"swap_disk", "root_disk"}
    /\ \E r \in V4Resp :
         LET q == V4Query(r)
             swap == pc = "swap_disk"
         IN
         /\ Send(Req("POST disks", L.linode_id, IF swap THEN "swap" ELSE "ext4", NONE,
                     IF swap THEN L.swap_size ELSE L.root_disk_size, <<>>, FALSE))
         /\ Failed(r)
         /\ IF q.raised THEN Finish("raise", q.exc) /\ wait' = wait
            ELSE IF q.val = "excobj" THEN Finish("raise", "AttributeError") /\ wait' = wait
            ELSE /\ V4StartWait("GET disk", "ready", IF swap THEN "root_disk" ELSE "config")
                 /\ Goto("wait")
    /\ UNCHANGED <<api, poll_interval, op, vm, L, events>>
    /\ UNCHANGED <<ratelimit_sleep, LASTCALL, clock, Q, snap>>

(***************************************************************************)
(* What the caller of a wait does when the wait returns, up to its next    *)
(* remote call: create line 592 (root disk next), create lines 596-601     *)
(* (create_config without root_disk_id, swap_disk left None), and the     *)
(* returns of start, stop (lines 788-815) and reboot (line 723).           *)
(***************************************************************************)
V4AfterWait(ret) ==
    CASE ret = "root_disk" -> Goto("root_disk")
      [] ret = "config" ->
            IF v4_create_config_sends("Default Config", L.linode_id, NONE, NONE)
            THEN Goto("config_req")
            ELSE Finish("raise", "SaltCloudSystemExit")
      [] ret = "lc_done" ->
            Finish("return", IF op = "reboot" THEN "result" ELSE "success")

(***************************************************************************)
(* _wait_for_entity_status lines 916-928: one turn of the loop.  curr is   *)
(* never changed by the loop.  The provider acts on an accepted start,     *)
(* stop or reboot request on its own time: until it has begun, the getter  *)
(* reports the status the instance had before the request (wait.begun      *)
(* records whether it had begun by the latest probe).                      *)
(***************************************************************************)
v4_wait_next(w) == [w EXCEPT !.probes = @ + 1]

Lifecycle == op \in {"start", "stop", "reboot"}

V4WaitProbe ==
    /\ api = "v4" /\ pc = "wait"
    /\ wait.probes < MaxProbes
    /\ \E r \in V4Resp, hit \in BOOLEAN, started \in BOOLEAN :
         LET q == V4Query(r)
             begun == wait.begun \/ started \/ ~Lifecycle
             current_status == IF q.val # "body" THEN "other"
                               ELSE IF ~begun THEN L.result
                               ELSE IF hit THEN wait.target ELSE "other"
         IN
         /\ Send(Req(wait.getter, L.linode_id, NONE, NONE, 0, <<>>, FALSE))
         /\ Failed(r)
         /\ IF q.raised THEN Finish("raise", q.exc) /\ wait' = wait
            ELSE IF q.val = "excobj" THEN Finish("raise", "AttributeError") /\ wait' = wait
            ELSE IF current_status = wait.target
                 THEN /\ V4AfterWait(wait.ret)
                      /\ wait' = [wait EXCEPT !.result = "observation", !.begun = begun]
            ELSE IF wait.curr <= wait.times
                 THEN wait' = [v4_wait_next(wait) EXCEPT !.begun = begun] /\ Goto("wait")
            ELSE /\ Finish("raise", "Timeout")
                 /\ wait' = [v4_wait_next(wait) EXCEPT !.result = "Timeout",
                                                       !.begun = begun]
    /\ UNCHANGED <<api, poll_interval, op, vm, L, events>>
    /\ UNCHANGED <<ratelimit_sleep, LASTCALL, clock, Q, snap>>

(***************************************************************************)
(* create line 605 -> boot lines 410-429: the lookup by id, then the call  *)
(* self._query(..., body=...), a keyword _query does not have.             *)
(***************************************************************************)
V4CreateBootLookup ==
    /\ api = "v4" /\ op = "create" /\ pc = "boot_lookup"
    /\ \E r \in V4Resp :
         LET q == V4Query(r) IN
         /\ Send(Req("GET /linode/instances/id", L.linode_id, NONE, NONE, 0, <<>>, FALSE))
         /\ Failed(r)
         /\ IF q.raised THEN Finish("raise", q.exc)
            ELSE IF q.val = "excobj" THEN Finish("raise", "AttributeError")
            ELSE Finish("raise", "TypeError")
    /\ UNCHANGED <<api, poll_interval, op, vm, L, events, wait>>
    /\ UNCHANGED <<ratelimit_sleep, LASTCALL, clock, Q, snap>>

(***************************************************************************)
(* LinodeAPIv4.start / stop / reboot: the lookup by name and the           *)
(* short-circuit (lines 774-783, 796-805, 719-720).                        *)
(***************************************************************************)
V4Statuses == {"running", "offline", "rebooting"}

v4_noop_never(action, status) == FALSE

v4_noop(action, status) ==
    \/ action = "start" /\ status = "running"
    \/ action = "stop" /\ status = "offline"

V4LifecycleBegin ==
    /\ api = "v4" /\ op = "idle"
    /\ \E action \in {"start", "stop", "reboot"}, r \in V4Resp, found \in BOOLEAN,
          status \in V4Statuses :
         LET q == V4Query(r) IN
         /\ op' = action
         /\ Send(Req("GET /linode/instances", NONE, NONE, NONE, 0, <<>>, FALSE))
         /\ Failed(r)
         /\ IF q.raised THEN Finish("raise", q.exc) /\ L' = L
            ELSE IF q.val = "excobj" THEN Finish("raise", "AttributeError") /\ L' = L
            ELSE IF q.val = "errbody" \/ ~found
                 THEN Finish("raise", "SaltCloudNotFound") /\ L' = L
            ELSE /\ L' = [L EXCEPT !.linode_id = "tgt", !.result = status]
                 /\ IF v4_noop(action, status)
                    THEN Finish("return", "success")
                    ELSE Goto("lc_req")
    /\ UNCHANGED <<api, poll_interval, vm, events, wait>>
    /\ UNCHANGED <<ratelimit_sleep, LASTCALL, clock, Q, snap>>

(***************************************************************************)
(* start line 785, stop line 807, reboot line 722: the state-changing      *)
(* request, then _wait_for_linode_status starts.                           *)
(***************************************************************************)
V4LifecycleReq ==
    /\ api = "v4" /\ op \in {"start", "stop", "reboot"} /\ pc = "lc_req"
    /\ \E r \in V4Resp :
         LET q == V4Query(r)
             kind == CASE op = "start" -> "POST boot"
                       [] op = "stop" -> "POST shutdown"
                       [] op = "reboot" -> "POST reboot"
         IN
         /\ Send(Req(kind, L.linode_id, NONE, NONE, 0, <<>>, FALSE))
         /\ Failed(r)
         /\ IF q.raised THEN Finish("raise", q.exc) /\ wait' = wait
            ELSE /\ V4StartWait("GET /linode/instances/id",
                                IF op = "stop" THEN "offline" ELSE "running", "lc_done")
                 /\ Goto("wait")
    /\ UNCHANGED <<api, poll_interval, op, vm, L, events>>
    /\ UNCHANGED <<ratelimit_sleep, LASTCALL, clock, Q, snap>>

(***************************************************************************)
(* The module-level boot, lines 2063-2075, through which boot is called on *)
(* its own: an action needs a name, and either a name or a linode_id must  *)
(* be there.  config_id is read (2067) and not checked.                    *)
(***************************************************************************)
boot_raises(call, name, linode_id) ==
    \/ name = NONE /\ call = "action"
    \/ name = NONE /\ linode_id = NONE

Given(v) == v # NONE

BootArgs(name, linode_id, config_id) ==
    [NoArgs EXCEPT !.name = Given(name), !.linode_id = Given(linode_id),
                   !.config_id = Given(config_id)]

(***************************************************************************)
(* LinodeAPIv4.boot called on its own (lines 409-431): get_linode by id or *)
(* by name, the already-running guard, and then the call                   *)
(* self._query(..., body=...), a keyword _query does not have: boot never  *)
(* sends its request.  config_id is only ever placed in that call.         *)
(***************************************************************************)
V4Boot ==
    /\ api = "v4" /\ op = "idle"
    /\ op' = "boot"
    /\ \E call \in {"action", "function"}, name \in {NONE, "name"},
          linode_id \in {NONE, "tgt"}, config_id \in {NONE, "cfg"},
          check_running \in BOOLEAN, r \in V4Resp,
          found \in BOOLEAN, status \in V4Statuses :
         LET q == V4Query(r)
             by == get_linode(linode_id, name)
         IN
         /\ snap' = [NoSnap EXCEPT !.args = BootArgs(name, linode_id, config_id)]
         /\ IF boot_raises(call, name, linode_id)
            THEN /\ Finish("raise", "SaltCloudSystemExit")
                 /\ UNCHANGED <<L, reqs, failedAt>>
            ELSE
            /\ Send(Req(IF by = "by_id" THEN "GET /linode/instances/id"
                        ELSE "GET /linode/instances", linode_id, NONE, NONE, 0, <<>>,
                        FALSE))
            /\ Failed(r)
            /\ L' = [L EXCEPT !.check_running = check_running]
            /\ IF q.raised THEN Finish("raise", q.exc)
               ELSE IF q.val = "excobj" THEN Finish("raise", "AttributeError")
               ELSE IF by = "by_name" /\ (q.val = "errbody" \/ ~found)
                    THEN Finish("raise", "SaltCloudNotFound")
               ELSE IF check_running /\ q.val = "errbody" THEN Finish("raise", "KeyError")
               ELSE IF check_running /\ status = "running"
                    THEN Finish("raise", "SaltCloudSystemExit")
               ELSE Finish("raise", "TypeError")
    /\ UNCHANGED <<api, poll_interval, vm, events, wait>>
    /\ UNCHANGED <<ratelimit_sleep, LASTCALL, clock, Q>>

(***************************************************************************)
(* LinodeAPIv4.destroy lines 655-670: the destroyed event is fired first   *)
(* and, when update_cachedir is set, the minion's cache entry is deleted   *)
(* (665-668; entered in the log next to the events); then the instance is  *)
(* looked up by name.                                                      *)
(***************************************************************************)
Evicted(update_cachedir) ==
    IF update_cachedir THEN <<"delete_minion_cachedir">> ELSE <<>>

V4DestroyBegin ==
    /\ api = "v4" /\ op = "idle"
    /\ op' = "destroy"
    /\ \E update_cachedir \in BOOLEAN :
         events' = Append(events, "destroyed") \o Evicted(update_cachedir)
    /\ \E r \in V4Resp, found \in BOOLEAN :
         LET q == V4Query(r) IN
         /\ Send(Req("GET /linode/instances", NONE, NONE, NONE, 0, <<>>, FALSE))
         /\ Failed(r)
         /\ IF q.raised THEN Finish("raise", q.exc) /\ L' = L
            ELSE IF q.val = "excobj" THEN Finish("raise", "AttributeError") /\ L' = L
            ELSE IF q.val = "errbody" \/ ~found
                 THEN Finish("raise", "SaltCloudNotFound") /\ L' = L
            ELSE L' = [L EXCEPT !.linode_id = "tgt"] /\ Goto("delete")
    /\ UNCHANGED <<api, poll_interval, vm, wait>>
    /\ UNCHANGED <<ratelimit_sleep, LASTCALL, clock, Q, snap>>

(***************************************************************************)
(* destroy line 672: the DELETE request.  Its result is not looked at and  *)
(* destroy returns None.                                                   *)
(***************************************************************************)
V4DestroyReq ==
    /\ api = "v4" /\ op = "destroy" /\ pc = "delete"
    /\ \E r \in V4Resp, same \in BOOLEAN :
         LET q == v4_query(r, ~same) IN
         /\ Send(Req("DELETE /linode/instances/id", L.linode_id, NONE, NONE, 0, <<>>,
                     FALSE))
         /\ Failed(r)
         /\ IF q.raised THEN Finish("raise", q.exc)
            ELSE Finish("return", "None")
    /\ UNCHANGED <<api, poll_interval, op, vm, L, events, wait>>
    /\ UNCHANGED <<ratelimit_sleep, LASTCALL, clock, Q, snap>>

(***************************************************************************)
(* The keyword arguments of a function called on its own: which of them    *)
(* the caller passed.                                                      *)
(***************************************************************************)
ArgsOver(keys) ==
    {[k \in DOMAIN NoArgs |-> k \in given] : given \in SUBSET keys}

CloneKeys == {"linode_id", "location", "size", "datacenter_id", "plan_id"}
ConfigKeys == {"name", "linode_id", "root_disk_id", "swap_disk_id"}
LookupKeys == {"name", "linode_id"}

(***************************************************************************)
(* LinodeAPIv4.clone lines 436-457: linode_id, location and size are       *)
(* required; datacenter_id and plan_id are only warned about.              *)
(***************************************************************************)
v4_clone_raises(k) == ~k.linode_id \/ ~k.location \/ ~k.size

V4Clone ==
    /\ api = "v4" /\ op = "idle"
    /\ op' = "clone"
    /\ \E k \in ArgsOver(CloneKeys), r \in V4Resp :
         LET q == V4Query(r) IN
         /\ snap' = [NoSnap EXCEPT !.args = k]
         /\ IF v4_clone_raises(k)
            THEN Finish("raise", "SaltCloudSystemExit") /\ UNCHANGED <<reqs, failedAt>>
            ELSE /\ Send(Req("POST clone", "tgt", "size", "location", 0, <<>>, FALSE))
                 /\ Failed(r)
                 /\ IF q.raised THEN Finish("raise", q.exc)
                    ELSE Finish("return", q.val)
    /\ UNCHANGED <<api, poll_interval, vm, L, events, wait>>
    /\ UNCHANGED <<ratelimit_sleep, LASTCALL, clock, Q>>

(***************************************************************************)
(* LinodeAPIv4.create_config called on its own, lines 468-496.             *)
(***************************************************************************)
Passed(given, v) == IF given THEN v ELSE NONE

V4CreateConfig ==
    /\ api = "v4" /\ op = "idle"
    /\ op' = "create_config"
    /\ \E k \in ArgsOver(ConfigKeys), r \in V4Resp :
         LET q == V4Query(r) IN
         /\ snap' = [NoSnap EXCEPT !.args = k]
         /\ IF ~v4_create_config_sends(Passed(k.name, "name"), Passed(k.linode_id, "tgt"),
                                       Passed(k.root_disk_id, "root"),
                                       Passed(k.swap_disk_id, "swap"))
            THEN Finish("raise", "SaltCloudSystemExit") /\ UNCHANGED <<reqs, failedAt>>
            ELSE /\ Send(Req("POST configs", "tgt", "root", "swap", 0, <<>>, FALSE))
                 /\ Failed(r)
                 /\ IF q.raised THEN Finish("raise", q.exc)
                    ELSE Finish("return", q.val)
    /\ UNCHANGED <<api, poll_interval, vm, L, events, wait>>
    /\ UNCHANGED <<ratelimit_sleep, LASTCALL, clock, Q>>

(***************************************************************************)
(* get_config_id, lines 677-687 (v4) and 1571-1579 (v3): a name or a       *)
(* linode_id is required; without a linode_id the instance is looked up by *)
(* name first.                                                             *)
(***************************************************************************)
get_config_id_raises(k) == ~k.name /\ ~k.linode_id

V4GetConfigId ==
    /\ api = "v4" /\ op = "idle"
    /\ op' = "get_config_id"
    /\ \E k \in ArgsOver(LookupKeys), r \in V4Resp, found \in BOOLEAN :
         LET q == V4Query(r) IN
         /\ snap' = [NoSnap EXCEPT !.args = k]
         /\ IF get_config_id_raises(k)
            THEN Finish("raise", "SaltCloudSystemExit") /\ UNCHANGED <<reqs, failedAt>>
            ELSE IF k.linode_id
            THEN Goto("config_list") /\ UNCHANGED <<reqs, failedAt>>
            ELSE /\ Send(Req("GET /linode/instances", NONE, NONE, NONE, 0, <<>>, FALSE))
                 /\ Failed(r)
                 /\ IF q.raised THEN Finish("raise", q.exc)
                    ELSE IF q.val = "excobj" THEN Finish("raise", "AttributeError")
                    ELSE IF q.val = "errbody" \/ ~found
                         THEN Finish("raise", "SaltCloudNotFound")
                    ELSE Goto("config_list")
    /\ UNCHANGED <<api, poll_interval, vm, L, events, wait>>
    /\ UNCHANGED <<ratelimit_sleep, LASTCALL, clock, Q>>

(***************************************************************************)
(* get_config_id lines 689-692: the list of the instance's configs, of     *)
(* which the first is taken.                                               *)
(***************************************************************************)
V4GetConfigList ==
    /\ api = "v4" /\ op = "get_config_id" /\ pc = "config_list"
    /\ \E r \in V4Resp, has_config \in BOOLEAN :
         LET q == V4Query(r) IN
         /\ Send(Req("GET configs", "tgt", NONE, NONE, 0, <<>>, FALSE))
         /\ Failed(r)
         /\ IF q.raised THEN Finish("raise", q.exc)
            ELSE IF q.val = "excobj" THEN Finish("raise", "AttributeError")
            ELSE IF q.val = "errbody" \/ ~has_config THEN Finish("raise", "IndexError")
            ELSE Finish("return", "config_id")
    /\ UNCHANGED <<api, poll_interval, op, vm, L, events, wait>>
    /\ UNCHANGED <<ratelimit_sleep, LASTCALL, clock, Q, snap>>

(***************************************************************************)
(* _get_linode_by_name, lines 826-832 (v4) and 1875-1881 (v3): the first   *)
(* listed instance whose label is the name; 0 stands for the raise of      *)
(* SaltCloudNotFound after the loop.                                       *)
(***************************************************************************)
RECURSIVE _get_linode_by_name(_, _, _)
_get_linode_by_name(instances, name, i) ==
    IF i > Len(instances) THEN 0
    ELSE IF instances[i].label = name THEN i
    ELSE _get_linode_by_name(instances, name, i + 1)

LookupIds == 0..(MaxNodes + 1)

(***************************************************************************)
(* get_linode called on its own, lines 317-328, with LinodeAPIv4's lookups *)
(* (818-832).  An absent linode_id is 0.  _get_linode_by_id hands back     *)
(* whatever _query gave; the provider has no "ok" answer for an id it does *)
(* not have.                                                               *)
(***************************************************************************)
LookupSnap(nodes, name, linode_id, r, found) ==
    [NoSnap EXCEPT !.nodes = nodes, !.name = name, !.linode_id = linode_id,
                   !.resp = r, !.found = found,
                   !.args = [NoArgs EXCEPT !.name = Given(name),
                                           !.linode_id = linode_id # 0]]

V4GetLinode ==
    /\ api = "v4" /\ op = "idle"
    /\ op' = "get_linode"
    /\ \E nodes \in V4Labelled, name \in {NONE} \cup NodeLabels, linode_id \in LookupIds,
          r \in V4Resp :
         LET q == V4Query(r)
             by == get_linode(Passed(linode_id # 0, "id"), name)
             hit == _get_linode_by_name(IF q.val = "body" THEN nodes ELSE <<>>, name, 1)
         IN
         CASE by = "raise" ->
                /\ Finish("raise", "SaltCloudSystemExit")
                /\ snap' = LookupSnap(nodes, name, linode_id, NONE, 0)
                /\ UNCHANGED <<reqs, failedAt>>
           [] by = "by_id" ->
                /\ r = "ok" => linode_id \in 1..Len(nodes)
                /\ Send(Req("GET /linode/instances/id", "id", NONE, NONE, 0, <<>>, FALSE))
                /\ Failed(r)
                /\ snap' = LookupSnap(nodes, name, linode_id, r,
                                      IF r = "ok" THEN linode_id ELSE 0)
                /\ IF q.raised THEN Finish("raise", q.exc)
                   ELSE Finish("return", IF q.val = "body" THEN "instance" ELSE q.val)
           [] by = "by_name" ->
                /\ Send(Req("GET /linode/instances", NONE, NONE, NONE, 0, <<>>, FALSE))
                /\ Failed(r)
                /\ snap' = LookupSnap(nodes, name, linode_id, r,
                                      IF q.raised \/ q.val = "excobj" THEN 0 ELSE hit)
                /\ IF q.raised THEN Finish("raise", q.exc)
                   ELSE IF q.val = "excobj" THEN Finish("raise", "AttributeError")
                   ELSE IF hit = 0 THEN Finish("raise", "SaltCloudNotFound")
                   ELSE Finish("return", "instance")
    /\ UNCHANGED <<api, poll_interval, vm, L, events, wait>>
    /\ UNCHANGED <<ratelimit_sleep, LASTCALL, clock, Q>>

(***************************************************************************)
(* LinodeAPIv4._get_ips lines 864-875.  ipaddress.ip_address(addr)         *)
(* .is_private is true of the addresses in the private ranges; the loop    *)
(* appends each address, in order, to one of the two lists.                *)
(***************************************************************************)
IsPrivate(addr) == addr \in PrivateAddrs

v4_get_ips_public(ipv4, i, public, private) ==
    [public_ips |-> ipv4, private_ips |-> <<>>]

RECURSIVE v4_get_ips(_, _, _, _)
v4_get_ips(ipv4, i, public, private) ==
    IF i > Len(ipv4) THEN [public_ips |-> public, private_ips |-> private]
    ELSE IF IsPrivate(ipv4[i])
    THEN v4_get_ips(ipv4, i + 1, public, Append(private, ipv4[i]))
    ELSE v4_get_ips(ipv4, i + 1, Append(public, ipv4[i]), private)

(***************************************************************************)
(* What instance.get("ipv4", []) is for a result of _query: the list of    *)
(* the instance, or the empty list for an error body, which has no such    *)
(* key.                                                                    *)
(***************************************************************************)
v4_ipv4(q, ipv4) == IF q.val = "body" THEN ipv4 ELSE <<>>

V4GetIps ==
    /\ api = "v4" /\ op = "idle"
    /\ op' = "_get_ips"
    /\ \E ipv4 \in AddrLists, r \in V4Resp :
         LET q == V4Query(r)
             ips == v4_get_ips(v4_ipv4(q, ipv4), 1, <<>>, <<>>)
         IN
         /\ Send(Req("GET /linode/instances/id", "id", NONE, NONE, 0, <<>>, FALSE))
         /\ Failed(r)
         /\ IF q.raised
            THEN /\ Finish("raise", q.exc)
                 /\ snap' = [NoSnap EXCEPT !.linode_id = 1, !.resp = r]
            ELSE IF q.val = "excobj"
            THEN /\ Finish("raise", "AttributeError")
                 /\ snap' = [NoSnap EXCEPT !.linode_id = 1, !.resp = r]
            ELSE /\ Finish("return", "ips")
                 /\ snap' = [NoSnap EXCEPT !.linode_id = 1, !.resp = r,
                                           !.raw = v4_ipv4(q, ipv4),
                                           !.public_ips = ips.public_ips,
                                           !.private_ips = ips.private_ips]
    /\ UNCHANGED <<api, poll_interval, vm, L, events, wait>>
    /\ UNCHANGED <<ratelimit_sleep, LASTCALL, clock, Q>>

(***************************************************************************)
(* LinodeAPIv4.list_nodes_min lines 695-707 and _list_linodes lines        *)
(* 835-857: the entry built for one instance, and the loop of              *)
(* list_nodes_min.  ret[label] = entry replaces an earlier entry of the    *)
(* same label.                                                             *)
(***************************************************************************)
v4_min_entry_id(instance) == [id |-> instance.id, state |-> ToString(instance.id)]

v4_min_entry(instance) == [id |-> instance.id, state |-> instance.status]

v4_node(instance, ips, full) ==
    LET node == [id |-> instance.id, image |-> instance.image, name |-> instance.label,
                 size |-> instance.type, state |-> instance.status,
                 public_ips |-> ips.public_ips, private_ips |-> ips.private_ips]
    IN IF full THEN ("extra" :> instance) @@ node ELSE node

RECURSIVE v4_list_nodes_min(_, _, _)
v4_list_nodes_min(instances, i, ret) ==
    IF i > Len(instances) THEN ret
    ELSE v4_list_nodes_min(instances, i + 1,
            (instances[i].label :> v4_min_entry(instances[i])) @@ ret)

(***************************************************************************)
(* The listing functions may be called one after another against the same  *)
(* account: a call starts from the idle driver or after a listing call     *)
(* that returned, and then sees the account of that call.  Further calls   *)
(* are explored while the provider has answered every request with the     *)
(* account.                                                                *)
(***************************************************************************)
ListReady ==
    \/ op = "idle"
    \/ op = "list" /\ pc = "done" /\ outcome.kind = "return" /\ failedAt = 0

ListDone(sn, fn, ret) == [sn EXCEPT !.ret[fn] = ret, !.returned = @ \cup {fn}]

V4ListBegin ==
    /\ api = "v4" /\ ListReady
    /\ op' = "list"
    /\ \E fn \in ListFns \ snap.returned, r \in V4Resp,
          nodes \in (IF op = "idle" THEN V4Accounts ELSE {snap.nodes}) :
         LET q == V4Query(r)
             instances == IF q.val = "body" THEN nodes ELSE <<>>
             base == [snap EXCEPT !.nodes = nodes, !.fn = fn, !.instances = instances,
                                  !.i = 1, !.acc = NoEntries]
         IN
         /\ Send(Req("GET /linode/instances", NONE, NONE, NONE, 0, <<>>, FALSE))
         /\ Failed(r)
         /\ IF q.raised THEN Finish("raise", q.exc) /\ snap' = base
            ELSE IF q.val = "excobj" THEN Finish("raise", "AttributeError") /\ snap' = base
            ELSE IF fn = "list_nodes_min"
            THEN /\ Finish("return", "ret")
                 /\ snap' = ListDone(base, fn, v4_list_nodes_min(instances, 1, NoEntries))
            ELSE IF instances = <<>>
            THEN Finish("return", "ret") /\ snap' = ListDone(base, fn, NoEntries)
            ELSE Goto("list_ips") /\ snap' = base
    /\ UNCHANGED <<api, poll_interval, vm, L, events, wait>>
    /\ UNCHANGED <<ratelimit_sleep, LASTCALL, clock, Q>>

(***************************************************************************)
(* _list_linodes lines 840-855: one turn of the loop, with the request of  *)
(* _get_ips(node["id"]) for the instance.                                  *)
(***************************************************************************)
V4ListIps ==
    /\ api = "v4" /\ op = "list" /\ pc = "list_ips"
    /\ \E r \in V4Resp :
         LET q == V4Query(r)
             instance == snap.instances[snap.i]
             ips == v4_get_ips(v4_ipv4(q, instance.ipv4), 1, <<>>, <<>>)
             node == v4_node(instance, ips, snap.fn = "list_nodes_full")
             ret == (instance.label :> node) @@ snap.acc
         IN
         /\ Send(Req("GET /linode/instances/id", "id", NONE, NONE, 0, <<>>, FALSE))
         /\ Failed(r)
         /\ IF q.raised THEN Finish("raise", q.exc) /\ snap' = snap
            ELSE IF q.val = "excobj" THEN Finish("raise", "AttributeError") /\ snap' = snap
            ELSE IF snap.i = Len(snap.instances)
            THEN /\ Finish("return", "ret")
                 /\ snap' = ListDone([snap EXCEPT !.acc = ret], snap.fn, ret)
            ELSE Goto("list_ips") /\ snap' = [snap EXCEPT !.i = @ + 1, !.acc = ret]
    /\ UNCHANGED <<api, poll_interval, op, vm, L, events, wait>>
    /\ UNCHANGED <<ratelimit_sleep, LASTCALL, clock, Q>>

V4Next ==
    \/ V4CreateBegin
    \/ V4CreateCloneLookup
    \/ V4CreateCloneReq
    \/ V4CreateCloneIp
    \/ V4CreateAlloc
    \/ V4CreateTypeLookup
    \/ V4CreateDisk
    \/ V4WaitProbe
    \/ V4CreateBootLookup
    \/ V4LifecycleBegin
    \/ V4LifecycleReq
    \/ V4QueryCall
    \/ V4Boot
    \/ V4DestroyBegin
    \/ V4DestroyReq
    \/ V4Clone
    \/ V4CreateConfig
    \/ V4GetConfigId
    \/ V4GetConfigList
    \/ V4GetLinode
    \/ V4GetIps
    \/ V4ListBegin
    \/ V4ListIps

(***************************************************************************)
(* LinodeAPIv3._query lines 999-1029: a non-empty ERRORARRAY raises        *)
(* SaltCloudSystemExit for "Authentication failed" ("autherr") and         *)
(* SaltCloudException with the joined messages otherwise ("apierr"); a     *)
(* failure inside http.query ("neterr") propagates.                        *)
(***************************************************************************)
V3Resp == {"ok", "apierr", "autherr", "neterr"}

V3Query(r) ==
    CASE r = "ok"      -> [raised |-> FALSE, exc |-> NONE]
      [] r = "apierr"  -> [raised |-> TRUE, exc |-> "ProviderError"]
      [] r = "autherr" -> [raised |-> TRUE, exc |-> "AuthError"]
      [] r = "neterr"  -> [raised |-> TRUE, exc |-> "TransportError"]

(***************************************************************************)
(* LinodeAPIv3.create lines 1121-1161: validation, the creating event and  *)
(* the choice of the first remote call.                                    *)
(***************************************************************************)
V3AfterPlan(c) ==
    IF c.location # NONE THEN "dc_lookup"
    ELSE IF c.clonefrom # NONE THEN "clone_lookup"
    ELSE "alloc"

V3CreateBegin ==
    /\ api = "v3" /\ op = "idle"
    /\ op' = "create"
    /\ \E name \in Names :
         IF ~_validate_name(name)
         THEN /\ vm' = [NoVm EXCEPT !.name = name]
              /\ Finish("return", "False")
              /\ UNCHANGED events
         ELSE \E c \in VmConfigs :
              /\ vm' = WithName(c, name)
              /\ events' = Append(events, "creating")
              /\ Goto(IF c.size # NONE THEN "plan_lookup" ELSE V3AfterPlan(c))
    /\ UNCHANGED <<api, poll_interval, L, reqs, wait, failedAt>>
    /\ UNCHANGED <<ratelimit_sleep, LASTCALL, clock, Q, snap>>

(***************************************************************************)
(* create line 1146: get_plan_id -> _decode_linode_plan_label ->           *)
(* avail_sizes; a label the plan list does not resolve raises.             *)
(***************************************************************************)
V3CreatePlanLookup ==
    /\ api = "v3" /\ op = "create" /\ pc = "plan_lookup"
    /\ \E r \in V3Resp, known \in BOOLEAN :
         LET q == V3Query(r) IN
         /\ Send(Req("avail.LinodePlans", NONE, NONE, NONE, 0, <<>>, FALSE))
         /\ Failed(r)
         /\ \E gap \in DriverGaps : V3Paced(q.raised, gap, 0)
         /\ IF q.raised THEN Finish("raise", q.exc) /\ L' = L
            ELSE IF ~known THEN Finish("raise", "InvalidPlan") /\ L' = L
            ELSE /\ L' = [L EXCEPT !.plan_id = vm.size]
                 /\ Goto(V3AfterPlan(vm))
    /\ UNCHANGED <<api, poll_interval, ratelimit_sleep, Q, snap, op, vm, events, wait>>

(***************************************************************************)
(* create lines 1150-1156: _get_datacenter_id -> avail_locations; a        *)
(* location the list does not have (KeyError) falls back to datacenter 2.  *)
(***************************************************************************)
V3CreateDcLookup ==
    /\ api = "v3" /\ op = "create" /\ pc = "dc_lookup"
    /\ \E r \in V3Resp, known \in BOOLEAN :
         LET q == V3Query(r) IN
         /\ Send(Req("avail.datacenters", NONE, NONE, NONE, 0, <<>>, FALSE))
         /\ Failed(r)
         /\ \E gap \in DriverGaps : V3Paced(q.raised, gap, 0)
         /\ IF q.raised THEN Finish("raise", q.exc) /\ L' = L
            ELSE /\ L' = [L EXCEPT !.datacenter_id = IF known THEN vm.location ELSE "2"]
                 /\ Goto(IF vm.clonefrom # NONE THEN "clone_lookup" ELSE "alloc")
    /\ UNCHANGED <<api, poll_interval, ratelimit_sleep, Q, snap, op, vm, events, wait>>

(***************************************************************************)
(* create line 1161: _get_linode_id_from_name -> _get_linode_by_name.      *)
(***************************************************************************)
V3CreateCloneLookup ==
    /\ api = "v3" /\ op = "create" /\ pc = "clone_lookup"
    /\ \E r \in V3Resp, found \in BOOLEAN :
         LET q == V3Query(r) IN
         /\ Send(Req("linode.list", NONE, NONE, NONE, 0, <<>>, FALSE))
         /\ Failed(r)
         /\ \E gap \in DriverGaps : V3Paced(q.raised, gap, 0)
         /\ IF q.raised THEN Finish("raise", q.exc) /\ L' = L
            ELSE IF ~found THEN Finish("raise", "SaltCloudNotFound") /\ L' = L
            ELSE L' = [L EXCEPT !.src_id = "src"] /\ Goto("clone_get")
    /\ UNCHANGED <<api, poll_interval, ratelimit_sleep, Q, snap, op, vm, events, wait>>

(***************************************************************************)
(* create lines 1169-1175: the plan and datacenter of the clone request.   *)
(***************************************************************************)
V3CloneArgs(spec, loc, src) ==
    [plan_id |-> IF spec.size = NONE THEN src.src_type ELSE loc.plan_id,
     datacenter_id |-> IF spec.location = NONE THEN src.src_region
                       ELSE loc.datacenter_id]

(***************************************************************************)
(* create lines 1162-1175: get_linode(linode_id) -> _get_linode_by_id,     *)
(* whose DATA[0] raises IndexError on an empty answer.                     *)
(***************************************************************************)
V3CreateCloneGet ==
    /\ api = "v3" /\ op = "create" /\ pc = "clone_get"
    /\ \E r \in V3Resp, present \in BOOLEAN :
         LET q == V3Query(r)
             src == [src_type |-> SrcType, src_region |-> SrcRegion]
             a == V3CloneArgs(vm, L, src)
         IN
         /\ Send(Req("linode.list", L.src_id, NONE, NONE, 0, <<>>, FALSE))
         /\ Failed(r)
         /\ \E gap \in DriverGaps : V3Paced(q.raised, gap, 0)
         /\ IF q.raised THEN Finish("raise", q.exc) /\ L' = L
            ELSE IF ~present THEN Finish("raise", "IndexError") /\ L' = L
            ELSE /\ L' = [L EXCEPT !.src_type = SrcType, !.src_region = SrcRegion,
                                   !.plan_id = a.plan_id,
                                   !.datacenter_id = a.datacenter_id]
                 /\ Goto("clone_req")
    /\ UNCHANGED <<api, poll_interval, ratelimit_sleep, Q, snap, op, vm, events, wait>>

(***************************************************************************)
(* create lines 1178-1238 (clone) and 1197-1238 (fresh): the request under *)
(* try/except Exception, the requesting event, and then                    *)
(* self._clean_data(result): _clean_data (line 1935) takes one positional  *)
(* argument and is called with two.                                        *)
(***************************************************************************)
V3CreateRequest ==
    /\ api = "v3" /\ op = "create" /\ pc \in {"clone_req", "alloc"}
    /\ \E r \in V3Resp :
         LET q == V3Query(r) IN
         /\ IF pc = "clone_req"
            THEN Send(Req("linode.clone", L.src_id, L.plan_id, L.datacenter_id,
                          0, <<>>, FALSE))
            ELSE Send(Req("linode.create", NONE, L.plan_id, L.datacenter_id,
                          0, <<>>, FALSE))
         /\ Failed(r)
         /\ \E gap \in DriverGaps : V3Paced(q.raised, gap, 0)
         /\ IF q.raised
            THEN Finish("return", "False") /\ events' = events
            ELSE /\ events' = Append(events, "requesting")
                 /\ Finish("raise", "TypeError")
    /\ UNCHANGED <<api, poll_interval, ratelimit_sleep, Q, snap, op, vm, L, wait>>

(***************************************************************************)
(* LinodeAPIv3.start / stop / reboot: the lookup by name (lines 1890,      *)
(* 1909, 1923).                                                            *)
(***************************************************************************)
V3LifecycleBegin ==
    /\ api = "v3" /\ op = "idle"
    /\ \E action \in {"start", "stop", "reboot"}, r \in V3Resp, found \in BOOLEAN :
         LET q == V3Query(r) IN
         /\ op' = action
         /\ Send(Req("linode.list", NONE, NONE, NONE, 0, <<>>, FALSE))
         /\ Failed(r)
         /\ \E gap \in DriverGaps : V3Paced(q.raised, gap, 0)
         /\ IF q.raised THEN Finish("raise", q.exc) /\ L' = L
            ELSE IF ~found THEN Finish("raise", "SaltCloudNotFound") /\ L' = L
            ELSE /\ L' = [L EXCEPT !.linode_id = "tgt"]
                 /\ Goto(IF action = "reboot" THEN "lc_req" ELSE "lc_get")
    /\ UNCHANGED <<api, poll_interval, ratelimit_sleep, Q, snap, vm, events, wait>>

(***************************************************************************)
(* start lines 1891-1899, stop lines 1910-1913: get_linode by id and the   *)
(* short-circuit on STATUS 1 (running) / 2 (powered off).                  *)
(***************************************************************************)
V3Statuses == {0, 1, 2}

v3_noop_never(action, status) == FALSE

v3_noop(action, status) ==
    \/ action = "start" /\ status = 1
    \/ action = "stop" /\ status = 2

V3LifecycleGet ==
    /\ api = "v3" /\ op \in {"start", "stop"} /\ pc = "lc_get"
    /\ \E r \in V3Resp, present \in BOOLEAN, status \in V3Statuses :
         LET q == V3Query(r) IN
         /\ Send(Req("linode.list", L.linode_id, NONE, NONE, 0, <<>>, FALSE))
         /\ Failed(r)
         /\ \E gap \in DriverGaps : V3Paced(q.raised, gap, 0)
         /\ IF q.raised THEN Finish("raise", q.exc) /\ L' = L
            ELSE IF ~present THEN Finish("raise", "IndexError") /\ L' = L
            ELSE /\ L' = [L EXCEPT !.STATUS = status]
                 /\ IF v3_noop(op, status)
                    THEN Finish("return", "success")
                    ELSE Goto("lc_req")
    /\ UNCHANGED <<api, poll_interval, ratelimit_sleep, Q, snap, op, vm, events, wait>>

(***************************************************************************)
(* _wait_for_job lines 1709-1710: the attempt budget.                      *)
(***************************************************************************)
v3_iterations(timeout, interval) == timeout \div interval

(***************************************************************************)
(* start lines 1902-1905, stop lines 1917-1919: the result for the value   *)
(* _wait_for_job returned.                                                 *)
(***************************************************************************)
v3_start_stop_result_ignored(job_ok) == "success"

v3_start_stop_result(job_ok) == IF job_ok THEN "success" ELSE "failure"

(***************************************************************************)
(* boot lines 1090-1094: True or False for the value _wait_for_job         *)
(* returned; and what each caller of _wait_for_job returns for it.         *)
(***************************************************************************)
v3_boot_result_ignored(job_ok) == "True"

v3_boot_result(job_ok) == IF job_ok THEN "True" ELSE "False"

v3_job_caller(caller, job_ok) ==
    CASE caller \in {"start", "stop"} -> v3_start_stop_result(job_ok)
      [] caller = "boot" -> v3_boot_result(job_ok)
      [] caller = "_wait_for_job" -> IF job_ok THEN "True" ELSE "False"

(***************************************************************************)
(* _wait_for_job lines 1709-1710 before its loop: a budget of no           *)
(* iterations returns False at once (line 1724).                           *)
(***************************************************************************)
V3StartJobWait(timeout) ==
    LET iterations == v3_iterations(timeout, V3Interval) IN
    /\ wait' = [target |-> "job", times |-> iterations, curr |-> 0,
                probes |-> 0, ret |-> "lc_done", getter |-> "linode.job.list",
                result |-> IF iterations = 0 THEN "False" ELSE NONE, seen |-> FALSE, begun |-> FALSE]
    /\ IF iterations = 0 THEN Finish("return", v3_job_caller(op', FALSE))
       ELSE Goto("job_wait")

(***************************************************************************)
(* LinodeAPIv3.boot called on its own through the module-level boot (lines *)
(* 2063-2075), then lines 1063-1075: config_id is required; the instance   *)
(* is looked up by name when no id is given.                               *)
(***************************************************************************)
V3BootBegin ==
    /\ api = "v3" /\ op = "idle"
    /\ op' = "boot"
    /\ \E call \in {"action", "function"}, name \in {NONE, "name"},
          config_id \in {NONE, "cfg"}, linode_id \in {NONE, "tgt"},
          check_running \in BOOLEAN :
         /\ snap' = [NoSnap EXCEPT !.args = BootArgs(name, linode_id, config_id)]
         /\ IF boot_raises(call, name, linode_id) \/ config_id = NONE
            THEN Finish("raise", "SaltCloudSystemExit") /\ L' = L
            ELSE /\ L' = [L EXCEPT !.linode_id = linode_id,
                                   !.check_running = check_running]
                 /\ Goto(IF linode_id = NONE THEN "boot_lookup"
                         ELSE IF check_running THEN "boot_get" ELSE "lc_req")
    /\ UNCHANGED <<api, poll_interval, vm, reqs, events, wait, failedAt>>
    /\ UNCHANGED <<ratelimit_sleep, LASTCALL, clock, Q>>

(***************************************************************************)
(* boot line 1072: _get_linode_id_from_name.                               *)
(***************************************************************************)
V3BootLookup ==
    /\ api = "v3" /\ op = "boot" /\ pc = "boot_lookup"
    /\ \E r \in V3Resp, found \in BOOLEAN :
         LET q == V3Query(r) IN
         /\ Send(Req("linode.list", NONE, NONE, NONE, 0, <<>>, FALSE))
         /\ Failed(r)
         /\ \E gap \in DriverGaps : V3Paced(q.raised, gap, 0)
         /\ IF q.raised THEN Finish("raise", q.exc) /\ L' = L
            ELSE IF ~found THEN Finish("raise", "SaltCloudNotFound") /\ L' = L
            ELSE /\ L' = [L EXCEPT !.linode_id = "tgt"]
                 /\ Goto(IF L.check_running THEN "boot_get" ELSE "lc_req")
    /\ UNCHANGED <<api, poll_interval, ratelimit_sleep, Q, snap, op, vm, events, wait>>

(***************************************************************************)
(* boot lines 1078-1084: the already-running guard compares STATUS, an     *)
(* integer of the decoded body, with the string "1"; the two are never     *)
(* equal.                                                                  *)
(***************************************************************************)
v3_boot_is_running(status) == FALSE

V3BootGet ==
    /\ api = "v3" /\ op = "boot" /\ pc = "boot_get"
    /\ \E r \in V3Resp, present \in BOOLEAN, status \in V3Statuses :
         LET q == V3Query(r) IN
         /\ Send(Req("linode.list", L.linode_id, NONE, NONE, 0, <<>>, FALSE))
         /\ Failed(r)
         /\ \E gap \in DriverGaps : V3Paced(q.raised, gap, 0)
         /\ IF q.raised THEN Finish("raise", q.exc) /\ L' = L
            ELSE IF ~present THEN Finish("raise", "IndexError") /\ L' = L
            ELSE /\ L' = [L EXCEPT !.STATUS = status]
                 /\ IF v3_boot_is_running(status)
                    THEN Finish("raise", "SaltCloudSystemExit")
                    ELSE Goto("lc_req")
    /\ UNCHANGED <<api, poll_interval, ratelimit_sleep, Q, snap, op, vm, events, wait>>

(***************************************************************************)
(* _wait_for_job called on its own with a timeout of the caller's choice.  *)
(***************************************************************************)
V3Timeouts == {0, 4, 10}

V3WaitForJob ==
    /\ api = "v3" /\ op = "idle"
    /\ op' = "_wait_for_job"
    /\ L' = [L EXCEPT !.linode_id = "tgt", !.job_id = "job"]
    /\ \E timeout \in V3Timeouts : V3StartJobWait(timeout)
    /\ UNCHANGED <<api, poll_interval, vm, reqs, events, failedAt>>
    /\ UNCHANGED <<ratelimit_sleep, LASTCALL, clock, Q, snap>>

(***************************************************************************)
(* start line 1901, stop line 1915, boot lines 1087-1090, reboot lines    *)
(* 1924-1925: the state-changing request.  start, stop and boot enter      *)
(* _wait_for_job; reboot calls self._clean_data(response), one positional  *)
(* argument too many.                                                      *)
(***************************************************************************)
V3LifecycleReq ==
    /\ api = "v3" /\ op \in {"start", "stop", "reboot", "boot"} /\ pc = "lc_req"
    /\ \E r \in V3Resp :
         LET q == V3Query(r)
             kind == CASE op \in {"start", "boot"} -> "linode.boot"
                       [] op = "stop" -> "linode.shutdown"
                       [] op = "reboot" -> "linode.reboot"
         IN
         /\ Send(Req(kind, L.linode_id, NONE, NONE, 0, <<>>, FALSE))
         /\ Failed(r)
         /\ \E gap \in DriverGaps : V3Paced(q.raised, gap, 0)
         /\ IF q.raised THEN Finish("raise", q.exc) /\ UNCHANGED <<L, wait>>
            ELSE IF op = "reboot" THEN Finish("raise", "TypeError") /\ UNCHANGED <<L, wait>>
            ELSE /\ L' = [L EXCEPT !.job_id = "job"]
                 /\ V3StartJobWait(V3Timeout)
    /\ UNCHANGED <<api, poll_interval, ratelimit_sleep, Q, snap, op, vm, events>>

(***************************************************************************)
(* _wait_for_job lines 1712-1724, one turn of the for loop, and what start *)
(* (lines 1902-1905) and stop (lines 1917-1919) return for its result:     *)
(* True when the first listed job is the awaited one and succeeded, False  *)
(* when the loop runs out.                                                 *)
(***************************************************************************)
v3_job_done(w) == w.probes + 1 >= w.times

\* the job listings of the provider: the awaited job, finished or not, and
\* a finished job of the same Linode, in any order
Job(id, ok) == [JOBID |-> id, HOST_SUCCESS |-> ok]

JobLists == SeqsUpTo({Job("job", 0), Job("job", 1), Job("other", 1)}, MaxJobs)

\* line 1714: the test of one probe
v3_job_succeeded(jobs_result, job_id) ==
    jobs_result[1].JOBID = job_id /\ jobs_result[1].HOST_SUCCESS = 1

\* whether a listing reports the awaited job as successful, at any position
Reported(jobs_result, job_id) ==
    \E i \in 1..Len(jobs_result) :
        jobs_result[i] = Job(job_id, 1)

V3JobProbe ==
    /\ api = "v3" /\ pc = "job_wait"
    /\ \E r \in V3Resp, jobs_result \in JobLists :
         LET q == V3Query(r)
             seen == wait.seen \/ Reported(jobs_result, L.job_id)
         IN
         /\ Send(Req(wait.getter, L.linode_id, NONE, NONE, 0, <<>>, FALSE))
         /\ Failed(r)
         /\ \E gap \in (IF wait.probes = 0 THEN DriverGaps ELSE {V3Interval}) :
               V3Paced(q.raised, gap, 0)
         /\ IF q.raised THEN Finish("raise", q.exc) /\ wait' = wait
            ELSE IF jobs_result = <<>> THEN Finish("raise", "IndexError") /\ wait' = wait
            ELSE IF v3_job_succeeded(jobs_result, L.job_id)
                 THEN /\ Finish("return", v3_job_caller(op, TRUE))
                      /\ wait' = [wait EXCEPT !.result = "True", !.seen = seen]
            ELSE IF v3_job_done(wait)
                 THEN /\ Finish("return", v3_job_caller(op, FALSE))
                      /\ wait' = [wait EXCEPT !.probes = @ + 1, !.curr = @ + 1,
                                              !.result = "False", !.seen = seen]
            ELSE /\ wait' = [wait EXCEPT !.probes = @ + 1, !.curr = @ + 1, !.seen = seen]
                 /\ Goto("job_wait")
    /\ UNCHANGED <<api, poll_interval, ratelimit_sleep, Q, snap, op, vm, L, events>>

(***************************************************************************)
(* _wait_for_status lines 1743-1746: before its loop it calls              *)
(* self._get_status_descr_by_id(status) (or, without a status,             *)
(* self._get_status_id_by_name); both are defined without self (lines      *)
(* 1952, 1965), so the call raises TypeError before the first probe.       *)
(***************************************************************************)
V3WaitForStatus ==
    /\ api = "v3" /\ op = "idle"
    /\ op' = "_wait_for_status"
    /\ Finish("raise", "TypeError")
    /\ UNCHANGED <<api, poll_interval, vm, L, reqs, events, wait, failedAt>>
    /\ UNCHANGED <<ratelimit_sleep, LASTCALL, clock, Q, snap>>

(***************************************************************************)
(* LinodeAPIv3.destroy lines 1472-1482: the destroying event, then         *)
(* _get_linode_id_from_name.                                               *)
(***************************************************************************)
V3DestroyBegin ==
    /\ api = "v3" /\ op = "idle"
    /\ op' = "destroy"
    /\ events' = Append(events, "destroying")
    /\ \E r \in V3Resp, found \in BOOLEAN :
         LET q == V3Query(r) IN
         /\ Send(Req("linode.list", NONE, NONE, NONE, 0, <<>>, FALSE))
         /\ Failed(r)
         /\ \E gap \in DriverGaps : V3Paced(q.raised, gap, 0)
         /\ IF q.raised THEN Finish("raise", q.exc) /\ L' = L
            ELSE IF ~found THEN Finish("raise", "SaltCloudNotFound") /\ L' = L
            ELSE L' = [L EXCEPT !.linode_id = "tgt"] /\ Goto("delete")
    /\ UNCHANGED <<api, poll_interval, ratelimit_sleep, Q, snap, vm, wait>>

(***************************************************************************)
(* destroy lines 1484-1502: the delete request, then the destroyed event,  *)
(* and the response is returned.                                           *)
(***************************************************************************)
V3DestroyReq ==
    /\ api = "v3" /\ op = "destroy" /\ pc = "delete"
    /\ \E r \in V3Resp :
         LET q == V3Query(r) IN
         /\ Send(Req("linode.delete", L.linode_id, NONE, NONE, 0, <<>>, FALSE))
         /\ Failed(r)
         /\ \E gap \in DriverGaps : V3Paced(q.raised, gap, 0)
         /\ IF q.raised THEN Finish("raise", q.exc) /\ events' = events
            ELSE /\ \E update_cachedir \in BOOLEAN :
                      events' = Append(events, "destroyed") \o Evicted(update_cachedir)
                 /\ Finish("return", "response")
    /\ UNCHANGED <<api, poll_interval, ratelimit_sleep, Q, snap, op, vm, L, wait>>

(***************************************************************************)
(* LinodeAPIv3.clone lines 1099-1117: linode_id, datacenter_id (or         *)
(* location) and plan_id (or size) are required.                           *)
(***************************************************************************)
v3_clone_raises(k) ==
    ~k.linode_id \/ ~(k.datacenter_id \/ k.location) \/ ~(k.plan_id \/ k.size)

V3Clone ==
    /\ api = "v3" /\ op = "idle"
    /\ op' = "clone"
    /\ \E k \in ArgsOver(CloneKeys), r \in V3Resp :
         LET q == V3Query(r) IN
         /\ snap' = [NoSnap EXCEPT !.args = k]
         /\ IF v3_clone_raises(k)
            THEN /\ Finish("raise", "SaltCloudSystemExit")
                 /\ UNCHANGED <<reqs, failedAt, LASTCALL, clock>>
            ELSE /\ Send(Req("linode.clone", "tgt", "plan", "datacenter", 0, <<>>, FALSE))
                 /\ Failed(r)
                 /\ \E gap \in DriverGaps : V3Paced(q.raised, gap, 0)
                 /\ IF q.raised THEN Finish("raise", q.exc)
                    ELSE Finish("return", "body")
    /\ UNCHANGED <<api, poll_interval, ratelimit_sleep, Q, vm, L, events, wait>>

(***************************************************************************)
(* LinodeAPIv3.create_config called on its own, lines 1344-1384.           *)
(***************************************************************************)
v3_create_config_raises(k) ==
    ~k.name \/ ~k.linode_id \/ ~k.root_disk_id \/ ~k.swap_disk_id

V3CreateConfig ==
    /\ api = "v3" /\ op = "idle"
    /\ op' = "create_config"
    /\ \E k \in ArgsOver(ConfigKeys), r \in V3Resp :
         LET q == V3Query(r) IN
         /\ snap' = [NoSnap EXCEPT !.args = k]
         /\ IF v3_create_config_raises(k)
            THEN /\ Finish("raise", "SaltCloudSystemExit")
                 /\ UNCHANGED <<reqs, failedAt, LASTCALL, clock>>
            ELSE /\ Send(Req("linode.config.create", "tgt", "root", "swap", 0, <<>>,
                             FALSE))
                 /\ Failed(r)
                 /\ \E gap \in DriverGaps : V3Paced(q.raised, gap, 0)
                 /\ IF q.raised THEN Finish("raise", q.exc)
                    ELSE Finish("return", "body")
    /\ UNCHANGED <<api, poll_interval, ratelimit_sleep, Q, vm, L, events, wait>>

(***************************************************************************)
(* LinodeAPIv3.get_config_id lines 1571-1579: the parameter check and the  *)
(* lookup by name; lines 1581-1584: the config list and its first entry.   *)
(***************************************************************************)
V3GetConfigId ==
    /\ api = "v3" /\ op = "idle"
    /\ op' = "get_config_id"
    /\ \E k \in ArgsOver(LookupKeys), r \in V3Resp, found \in BOOLEAN :
         LET q == V3Query(r) IN
         /\ snap' = [NoSnap EXCEPT !.args = k]
         /\ IF get_config_id_raises(k)
            THEN /\ Finish("raise", "SaltCloudSystemExit")
                 /\ UNCHANGED <<reqs, failedAt, LASTCALL, clock>>
            ELSE IF k.linode_id
            THEN Goto("config_list") /\ UNCHANGED <<reqs, failedAt, LASTCALL, clock>>
            ELSE /\ Send(Req("linode.list", NONE, NONE, NONE, 0, <<>>, FALSE))
                 /\ Failed(r)
                 /\ \E gap \in DriverGaps : V3Paced(q.raised, gap, 0)
                 /\ IF q.raised THEN Finish("raise", q.exc)
                    ELSE IF ~found THEN Finish("raise", "SaltCloudNotFound")
                    ELSE Goto("config_list")
    /\ UNCHANGED <<api, poll_interval, ratelimit_sleep, Q, vm, L, events, wait>>

V3GetConfigList ==
    /\ api = "v3" /\ op = "get_config_id" /\ pc = "config_list"
    /\ \E r \in V3Resp, has_config \in BOOLEAN :
         LET q == V3Query(r) IN
         /\ Send(Req("linode.config.list", "tgt", NONE, NONE, 0, <<>>, FALSE))
         /\ Failed(r)
         /\ \E gap \in DriverGaps : V3Paced(q.raised, gap, 0)
         /\ IF q.raised THEN Finish("raise", q.exc)
            ELSE IF ~has_config THEN Finish("raise", "IndexError")
            ELSE Finish("return", "config_id")
    /\ UNCHANGED <<api, poll_interval, ratelimit_sleep, Q, snap, op, vm, L, events, wait>>

(***************************************************************************)
(* get_linode called on its own, lines 317-328, with LinodeAPIv3's lookups *)
(* (1873-1886).  _get_linode_by_id takes DATA[0] of the answer, which for  *)
(* an id the provider does not have is an empty list or an error.          *)
(***************************************************************************)
V3GetLinode ==
    /\ api = "v3" /\ op = "idle"
    /\ op' = "get_linode"
    /\ \E nodes \in V3Labelled, name \in {NONE} \cup NodeLabels, linode_id \in LookupIds,
          r \in V3Resp :
         LET q == V3Query(r)
             by == get_linode(Passed(linode_id # 0, "id"), name)
             hit == _get_linode_by_name(nodes, name, 1)
             DATA == IF linode_id \in 1..Len(nodes) THEN <<nodes[linode_id]>> ELSE <<>>
         IN
         CASE by = "raise" ->
                /\ Finish("raise", "SaltCloudSystemExit")
                /\ snap' = LookupSnap(nodes, name, linode_id, NONE, 0)
                /\ UNCHANGED <<reqs, failedAt, LASTCALL, clock>>
           [] by = "by_id" ->
                /\ Send(Req("linode.list", "id", NONE, NONE, 0, <<>>, FALSE))
                /\ Failed(r)
                /\ \E gap \in DriverGaps : V3Paced(q.raised, gap, 0)
                /\ snap' = LookupSnap(nodes, name, linode_id, r,
                                      IF q.raised \/ DATA = <<>> THEN 0 ELSE DATA[1].id)
                /\ IF q.raised THEN Finish("raise", q.exc)
                   ELSE IF DATA = <<>> THEN Finish("raise", "IndexError")
                   ELSE Finish("return", "instance")
           [] by = "by_name" ->
                /\ Send(Req("linode.list", NONE, NONE, NONE, 0, <<>>, FALSE))
                /\ Failed(r)
                /\ \E gap \in DriverGaps : V3Paced(q.raised, gap, 0)
                /\ snap' = LookupSnap(nodes, name, linode_id, r,
                                      IF q.raised THEN 0 ELSE hit)
                /\ IF q.raised THEN Finish("raise", q.exc)
                   ELSE IF hit = 0 THEN Finish("raise", "SaltCloudNotFound")
                   ELSE Finish("return", "instance")
    /\ UNCHANGED <<api, poll_interval, ratelimit_sleep, Q, vm, L, events, wait>>

(***************************************************************************)
(* LinodeAPIv3._get_ips lines 1653-1690.  The loop groups the records by   *)
(* six.text_type(item["LINODEID"]) and appends each address to the list    *)
(* its ISPUBLIC flag selects; with a linode_id only that id's two lists    *)
(* are returned, or two empty lists.                                       *)
(***************************************************************************)
NoIps == [public_ips |-> <<>>, private_ips |-> <<>>]

RECURSIVE v3_group_ips(_, _, _)
v3_group_ips(ips, i, ret) ==
    IF i > Len(ips) THEN ret
    ELSE LET item == ips[i]
             node_id == ToString(item.LINODEID)
             key == IF item.ISPUBLIC = 1 THEN "public_ips" ELSE "private_ips"
             had == IF node_id \in DOMAIN ret THEN ret ELSE (node_id :> NoIps) @@ ret
         IN v3_group_ips(ips, i + 1,
                [had EXCEPT ![node_id][key] = Append(@, item.IPADDRESS)])

v3_get_ips(ips, linode_id) ==
    LET ret == v3_group_ips(ips, 1, NoEntries)
        matching_id == ToString(linode_id)
    IN IF matching_id \in DOMAIN ret THEN ret[matching_id] ELSE NoIps

V3GetIps ==
    /\ api = "v3" /\ op = "idle"
    /\ op' = "_get_ips"
    /\ \E ips \in V3IpLists, linode_id \in 1..MaxNodes, r \in V3Resp :
         LET q == V3Query(r)
             _all_ips == v3_get_ips(ips, linode_id)
         IN
         /\ Send(Req("linode.ip.list", "id", NONE, NONE, 0, <<>>, FALSE))
         /\ Failed(r)
         /\ \E gap \in DriverGaps : V3Paced(q.raised, gap, 0)
         /\ IF q.raised
            THEN /\ Finish("raise", q.exc)
                 /\ snap' = [NoSnap EXCEPT !.linode_id = linode_id, !.resp = r]
            ELSE /\ Finish("return", "ips")
                 /\ snap' = [NoSnap EXCEPT !.linode_id = linode_id, !.resp = r,
                                           !.raw = ips,
                                           !.public_ips = _all_ips.public_ips,
                                           !.private_ips = _all_ips.private_ips]
    /\ UNCHANGED <<api, poll_interval, ratelimit_sleep, Q, vm, L, events, wait>>

(***************************************************************************)
(* LINODE_STATUS, lines 87-95, and _get_status_descr_by_id, lines          *)
(* 1952-1962.  The function is defined in the class without a self         *)
(* parameter: as a plain function it returns the descr of the entry whose  *)
(* code is int(status_id) and otherwise LINODE_STATUS.get(status_id,       *)
(* None), which for a code is None; called on the instance, as every call  *)
(* site of the file does, it is handed two arguments and raises TypeError. *)
(***************************************************************************)
LINODE_STATUS ==
    [boot_failed    |-> [code |-> -2, descr |-> "Boot Failed (not in use)"],
     beeing_created |-> [code |-> -1, descr |-> "Being Created"],
     brand_new      |-> [code |-> 0, descr |-> "Brand New"],
     running        |-> [code |-> 1, descr |-> "Running"],
     poweroff       |-> [code |-> 2, descr |-> "Powered Off"],
     shutdown       |-> [code |-> 3, descr |-> "Shutting Down (not in use)"],
     save_to_disk   |-> [code |-> 4, descr |-> "Saved to Disk (not in use)"]]

StatusIds == (-3)..5

_get_status_descr_by_id(status_id) ==
    LET hits == {status_name \in DOMAIN LINODE_STATUS :
                    LINODE_STATUS[status_name].code = status_id}
    IN IF hits # {} THEN LINODE_STATUS[CHOOSE status_name \in hits : TRUE].descr
       ELSE NONE

V3StatusDescr ==
    /\ api = "v3" /\ op = "idle"
    /\ op' = "_get_status_descr_by_id"
    /\ \E status_id \in StatusIds, via \in {"self", "class"} :
         /\ snap' = [NoSnap EXCEPT !.status_id = status_id]
         /\ IF via = "self" THEN Finish("raise", "TypeError")
            ELSE Finish("return", _get_status_descr_by_id(status_id))
    /\ UNCHANGED <<api, poll_interval, vm, L, events, wait, reqs, failedAt>>
    /\ UNCHANGED <<ratelimit_sleep, LASTCALL, clock, Q>>

(***************************************************************************)
(* LinodeAPIv3.list_nodes_min lines 1809-1819 and _list_linodes lines      *)
(* 1771-1798.  Both loops call self._get_status_descr_by_id for the first  *)
(* node they visit, which raises TypeError (see V3StatusDescr), so a       *)
(* result is returned only for an account without instances; _list_linodes *)
(* has sent the linode.ip.list request of _get_ips() by then.              *)
(***************************************************************************)
V3ListBegin ==
    /\ api = "v3" /\ ListReady
    /\ op' = "list"
    /\ \E fn \in ListFns \ snap.returned, r \in V3Resp,
          nodes \in (IF op = "idle" THEN V3Accounts ELSE {snap.nodes}) :
         LET q == V3Query(r)
             base == [snap EXCEPT !.nodes = nodes, !.fn = fn,
                                  !.instances = IF q.raised THEN <<>> ELSE nodes,
                                  !.i = 1, !.acc = NoEntries]
         IN
         /\ Send(Req("linode.list", NONE, NONE, NONE, 0, <<>>, FALSE))
         /\ Failed(r)
         /\ \E gap \in DriverGaps : V3Paced(q.raised, gap, 0)
         /\ IF q.raised THEN Finish("raise", q.exc) /\ snap' = base
            ELSE IF fn # "list_nodes_min" THEN Goto("list_ips") /\ snap' = base
            ELSE IF nodes = <<>>
            THEN Finish("return", "ret") /\ snap' = ListDone(base, fn, NoEntries)
            ELSE Finish("raise", "TypeError") /\ snap' = base
    /\ UNCHANGED <<api, poll_interval, ratelimit_sleep, Q, vm, L, events, wait>>

V3ListIps ==
    /\ api = "v3" /\ op = "list" /\ pc = "list_ips"
    /\ \E r \in V3Resp :
         LET q == V3Query(r) IN
         /\ Send(Req("linode.ip.list", NONE, NONE, NONE, 0, <<>>, FALSE))
         /\ Failed(r)
         /\ \E gap \in DriverGaps : V3Paced(q.raised, gap, 0)
         /\ IF q.raised THEN Finish("raise", q.exc) /\ snap' = snap
            ELSE IF snap.instances = <<>>
            THEN Finish("return", "ret") /\ snap' = ListDone(snap, snap.fn, NoEntries)
            ELSE Finish("raise", "TypeError") /\ snap' = snap
    /\ UNCHANGED <<api, poll_interval, ratelimit_sleep, Q, op, vm, L, events, wait>>

V3Next ==
    \/ V3CreateBegin
    \/ V3CreatePlanLookup
    \/ V3CreateDcLookup
    \/ V3CreateCloneLookup
    \/ V3CreateCloneGet
    \/ V3CreateRequest
    \/ V3LifecycleBegin
    \/ V3LifecycleGet
    \/ V3LifecycleReq
    \/ V3JobProbe
    \/ V3WaitForStatus
    \/ V3QueryCall
    \/ V3BootBegin
    \/ V3BootLookup
    \/ V3BootGet
    \/ V3WaitForJob
    \/ V3DestroyBegin
    \/ V3DestroyReq
    \/ V3Clone
    \/ V3CreateConfig
    \/ V3GetConfigId
    \/ V3GetConfigList
    \/ V3GetLinode
    \/ V3GetIps
    \/ V3StatusDescr
    \/ V3ListBegin
    \/ V3ListIps

Next == V4Next \/ V3Next

Spec == Init /\ [][Next]_vars

(***************************************************************************)
(* The request log, by kind of request.                                    *)
(***************************************************************************)
ReqsOf(kinds) == {i \in 1..Len(reqs) : reqs[i].kind \in kinds}

DiskReqs == ReqsOf({"POST disks", "linode.disk.create",
                    "linode.disk.createfromdistribution"})
SwapDiskReqs == {i \in DiskReqs : reqs[i].a = "swap"}
RootDiskReqs == DiskReqs \ SwapDiskReqs
ConfigReqs == ReqsOf({"POST configs", "linode.config.create"})
BootReqs == ReqsOf({"POST boot", "linode.boot"})
CloneReqs == ReqsOf({"POST clone", "linode.clone"})
AllocReqs == ReqsOf({"POST /linode/instances", "linode.create"})
ListReqs == ReqsOf({"GET /linode/instances", "linode.list"})

ExplicitPath == op = "create" /\ vm.clonefrom = NONE /\ vm.disk_given

\* the label rule as the documentation words it: 3 to 48 characters, letters,
\* digits, dashes and underscores, a letter or digit first and last
ValidLabel(name) ==
    /\ Len(name) \in MinNameLen..MaxNameLen
    /\ name[1] \in AlNum
    /\ name[Len(name)] \in AlNum
    /\ \A i \in 1..Len(name) : name[i] \in Inner

(***************************************************************************)
(* C1: a create whose name breaks the label rule has ended, has returned   *)
(* False, and has sent no request and fired no event (bootstrap is reached *)
(* only past the waiting_for_ssh event).                                   *)
(***************************************************************************)
C1_InvalidNameStopsCreate ==
    (op = "create" /\ ~ValidLabel(vm.name)) =>
        /\ pc = "done"
        /\ outcome = [kind |-> "return", val |-> "False"]
        /\ reqs = <<>>
        /\ events = <<>>

C1_Witness ==
    /\ op = "create" /\ pc = "done"
    /\ Len(vm.name) > MaxNameLen
    /\ \A i \in 1..Len(vm.name) : vm.name[i] \in AlNum
    /\ outcome.val = "False"

(***************************************************************************)
(* C2: a v4 wait whose probes were all answered, none with the target      *)
(* status, gives up after the budget: it makes no more than times + 1      *)
(* unsatisfied probes, and raises the timeout no sooner than after times   *)
(* of them.                                                                *)
(***************************************************************************)
C2_V4WaitGivesUpAfterBudget ==
    (api = "v4" /\ wait.target # NONE /\ failedAt = 0) =>
        /\ wait.probes <= wait.times + 1
        /\ (wait.result = "Timeout" => wait.probes >= wait.times)

(***************************************************************************)
(* C3: a wait that ran out of attempts without the target observed.        *)
(***************************************************************************)
WaitExhausted ==
    /\ wait.target # NONE
    /\ IF api = "v3" THEN wait.probes >= wait.times
       ELSE wait.probes >= 1 /\ wait.curr > wait.times

RemoteErrors == {"ProviderError", "AuthError", "TransportError", "ConnectionError"}

C5_RemoteFailureAbortsCreate ==
    (op = "create" /\ failedAt # 0) =>
        /\ Len(reqs) = failedAt
        /\ pc = "done"
        /\ outcome.kind = "raise"
        /\ outcome.val \in RemoteErrors
        /\ \A i \in 1..Len(events) : events[i] # "created"

(***************************************************************************)
(* C6: a create with an explicit disk size that the size class cannot hold *)
(* (root + swap above the capacity, or a negative root size) sends no      *)
(* disk-creation request and, once the instance is allocated and no remote *)
(* call failed, ends in the capacity error.                                *)
(***************************************************************************)
OverCapacity ==
    \/ vm.disk_size < 0
    \/ \A cap \in DiskCaps : vm.disk_size + vm.swap > cap

C6_OverCapacityFails ==
    (ExplicitPath /\ OverCapacity) =>
        /\ DiskReqs = {}
        /\ (pc = "done" /\ failedAt = 0 /\ AllocReqs # {}) =>
              /\ outcome.kind = "raise"
              /\ outcome.val \in {"Insufficient", "RootDisk"}

(***************************************************************************)
(* C7: on the explicit path a swap disk is requested only for a swap size  *)
(* above 0 and before the root disk, the root disk of a create with swap   *)
(* follows a swap disk, a config request follows every disk request, and   *)
(* a create that ended with its root disk ready, no remote call having     *)
(* failed, has sent the config request.                                    *)
(***************************************************************************)
RootDiskReady ==
    /\ RootDiskReqs # {}
    /\ wait.ret = "config"
    /\ wait.result = "observation"

C7_ExplicitPathOrder ==
    ExplicitPath =>
        /\ \A i \in SwapDiskReqs : vm.swap > 0 /\ \A j \in RootDiskReqs : i < j
        /\ (RootDiskReqs # {} /\ vm.swap > 0) => SwapDiskReqs # {}
        /\ \A c \in ConfigReqs : \A d \in DiskReqs : d < c
        /\ (pc = "done" /\ RootDiskReady /\ failedAt = 0) => ConfigReqs # {}

(***************************************************************************)
(* C8: an explicit create with swap that ended with both disks ready, no   *)
(* remote call having failed, has sent exactly one config request, naming  *)
(* the root and the swap disk, and a boot request after it.                *)
(***************************************************************************)
C8_OneConfigWithBothDisks ==
    (ExplicitPath /\ vm.swap > 0 /\ pc = "done" /\ RootDiskReady /\ failedAt = 0) =>
        /\ Cardinality(ConfigReqs) = 1
        /\ \A c \in ConfigReqs :
              /\ reqs[c].a = "disk_root"
              /\ reqs[c].b = "disk_swap"
              /\ \E b \in BootReqs : b > c

(***************************************************************************)
(* C9: a clone create that ended after its clone request, no remote call   *)
(* having failed, has looked the source up before it, has sent one clone   *)
(* request, no disk and no config request, and a boot request after it.    *)
(***************************************************************************)
C9_CloneThenBoot ==
    (op = "create" /\ vm.clonefrom # NONE /\ pc = "done" /\ failedAt = 0
        /\ CloneReqs # {}) =>
        /\ Cardinality(CloneReqs) = 1
        /\ DiskReqs = {}
        /\ ConfigReqs = {}
        /\ \A c \in CloneReqs :
              /\ \E l \in ListReqs : l < c
              /\ \E b \in BootReqs : b > c

(***************************************************************************)
(* C10: every clone request carries the size and the location of the       *)
(* profile where the profile has them (a location the provider does not    *)
(* list resolves to datacenter 2), and the source's otherwise.             *)
(***************************************************************************)
C10_CloneArgsFromProfile ==
    \A c \in CloneReqs :
        /\ reqs[c].a = (IF vm.size # NONE THEN vm.size ELSE SrcType)
        /\ reqs[c].b \in (IF vm.location # NONE THEN {vm.location, "2"}
                          ELSE {SrcRegion})

(***************************************************************************)
(* C11: start, stop, boot and reboot that sent their state-changing        *)
(* request report success only when the wait that followed has observed    *)
(* the target, by a probe sent after that request.                         *)
(***************************************************************************)
StateChangeReqs ==
    ReqsOf({"POST boot", "POST shutdown", "POST reboot",
            "linode.boot", "linode.shutdown", "linode.reboot"})

Succeeded ==
    /\ pc = "done"
    /\ outcome.kind = "return"
    /\ outcome.val \in {"success", "result", "True"}

C11_SuccessOnlyAfterObservation ==
    (op \in {"start", "stop", "boot", "reboot"} /\ Succeeded
        /\ StateChangeReqs # {}) =>
        /\ wait.result \in {"observation", "True"}
        /\ reqs[Len(reqs)].kind = wait.getter
        /\ \A i \in StateChangeReqs : i < Len(reqs)

C11_Witness ==
    /\ api = "v3" /\ op = "boot" /\ Succeeded
    /\ StateChangeReqs # {}
    /\ wait.result = "True"

(***************************************************************************)
(* C12: start on an instance read as running, and stop on one read as      *)
(* stopped, end at once with a success result.  As stated: without any     *)
(* request.  As amended: without a state-changing request, the lookups     *)
(* that read the instance being the only requests.                         *)
(***************************************************************************)
AlreadyInState ==
    IF api = "v4"
    THEN \/ op = "start" /\ L.result = "running"
         \/ op = "stop" /\ L.result = "offline"
    ELSE \/ op = "start" /\ L.STATUS = 1
         \/ op = "stop" /\ L.STATUS = 2

C12_NoopWithoutTransport ==
    AlreadyInState =>
        /\ pc = "done" /\ outcome = [kind |-> "return", val |-> "success"]
        /\ reqs = <<>>

C12_NoopWithoutStateChange ==
    AlreadyInState =>
        /\ pc = "done" /\ outcome = [kind |-> "return", val |-> "success"]
        /\ StateChangeReqs = {}
        /\ ListReqs = 1..Len(reqs)
        /\ Len(reqs) = IF api = "v4" THEN 1 ELSE 2

C12_Witness ==
    /\ AlreadyInState /\ pc = "done"
    /\ op = "stop" /\ api = "v3"

(***************************************************************************)
(* C13: in a destroy the destroying event has been fired by the time the   *)
(* delete request is sent, and the destroyed event is fired only once the  *)
(* delete request has been sent and has come back without error.           *)
(***************************************************************************)
DeleteReqs == ReqsOf({"DELETE /linode/instances/id", "linode.delete"})

Fired(tag) == \E i \in 1..Len(events) : events[i] = tag

C13_DestroyEventsAroundDelete ==
    op = "destroy" =>
        /\ DeleteReqs # {} => Fired("destroying")
        /\ Fired("destroyed") => DeleteReqs # {} /\ failedAt = 0

(***************************************************************************)
(* C14: a destroy whose delete request the provider answered with an       *)
(* error does not return normally: it ends in that error.                  *)
(***************************************************************************)
C14_DestroyFailsOnDeleteError ==
    (op = "destroy" /\ pc = "done" /\ DeleteReqs # {} /\ failedAt # 0) =>
        /\ outcome.kind = "raise"
        /\ outcome.val \in RemoteErrors

(***************************************************************************)
(* C15: the v4 _query raises an API error for a response that is non-2xx   *)
(* or carries an error envelope; it does not hand such a response, or an   *)
(* error object, back as a return value.                                   *)
(***************************************************************************)
C15_V4QueryRaisesOnError ==
    (Q.api = "v4" /\ Q.resp \in {"apierr", "httperr_env", "httperr_bare"}) =>
        /\ Q.raised
        /\ Q.exc \in RemoteErrors

(***************************************************************************)
(* C16: the v3 _query, for a response it obtained: a non-empty ERRORARRAY  *)
(* raises, the authentication error if any message is "Authentication      *)
(* failed", otherwise one API error whose text is all the messages in      *)
(* their order, joined; an absent or empty ERRORARRAY raises nothing and   *)
(* the body is returned.                                                   *)
(***************************************************************************)
JoinedInOrder(msg, errs) ==
    /\ Len(msg) = 2 * Len(errs) - 1
    /\ \A i \in 1..Len(errs) : msg[2 * i - 1] = errs[i]
    /\ \A i \in 1..(Len(errs) - 1) : msg[2 * i] = ", "

C16_V3ErrorArrayRaises ==
    (Q.api = "v3" /\ Q.answered) =>
        IF Q.has /\ Q.ERRORARRAY # <<>>
        THEN /\ Q.raised
             /\ IF \E i \in 1..Len(Q.ERRORARRAY) : Q.ERRORARRAY[i] = AuthMsg
                THEN Q.exc = "AuthError"
                ELSE Q.exc = "ProviderError" /\ JoinedInOrder(Q.msg, Q.ERRORARRAY)
        ELSE ~Q.raised /\ Q.val = "body"

C16_Witness ==
    /\ Q.api = "v3" /\ Q.answered /\ Q.raised
    /\ Len(Q.ERRORARRAY) = 2
    /\ Q.ERRORARRAY[1] # AuthMsg /\ Q.ERRORARRAY[2] = AuthMsg
    /\ Q.exc = "AuthError"

(***************************************************************************)
(* C17: a v3 request that follows a successful call is sent no earlier     *)
(* than ratelimit_sleep after it: the transport sleeps for the remainder   *)
(* when less has elapsed, and not at all otherwise.                        *)
(***************************************************************************)
C17_PacedByRemainder ==
    (Q.api = "v3" /\ Q.lastcall > 0 /\ Q.now >= Q.lastcall) =>
        LET elapsed == Q.now - Q.lastcall IN
        /\ Q.slept = IF elapsed < ratelimit_sleep THEN ratelimit_sleep - elapsed ELSE 0
        /\ Q.sent - Q.lastcall >= ratelimit_sleep

(***************************************************************************)
(* C18: LASTCALL changes only in a step in which a v3 transport call       *)
(* completes without error, and such a step sets it to the time at which   *)
(* the call completed; a step whose call raised, and every other step,     *)
(* leaves it as it was.                                                    *)
(***************************************************************************)
V3CallCompleted ==
    /\ api = "v3"
    /\ IF op' = "_query" THEN ~Q'.raised
       ELSE reqs' # reqs /\ failedAt' # Len(reqs')

C18_LastCallOnSuccessOnly ==
    [][IF V3CallCompleted THEN LASTCALL' = clock' ELSE LASTCALL' = LASTCALL]_vars

C18_Witness ==
    /\ Q.api = "v3" /\ Q.raised
    /\ Q.lastcall > 0 /\ Q.now > Q.lastcall
    /\ LASTCALL = Q.lastcall /\ clock > LASTCALL

(***************************************************************************)
(* C19: a wait that gave up has made at least one probe.                   *)
(***************************************************************************)
C19_WaitProbesBeforeGivingUp ==
    (wait.target # NONE /\ wait.result \in {"Timeout", "False"}) =>
        wait.probes >= 1

(***************************************************************************)
(* C20: a create of a fresh instance whose every remote call succeeded has *)
(* set ssh_host: to the first private address when ssh_interface is        *)
(* private_ips or a private address was asked for, and to the first public *)
(* address otherwise.                                                      *)
(***************************************************************************)
C20_SshHostChosen ==
    (op = "create" /\ pc = "done" /\ failedAt = 0 /\ vm.clonefrom = NONE
        /\ ~vm.disk_given /\ AllocReqs # {}) =>
        vm.ssh_host = IF vm.ssh_interface = "private_ips" \/ vm.assign_private_ip
                      THEN "private_ips[0]" ELSE "public_ips[0]"

(***************************************************************************)
(* C22: a create that obtained its new instance has requested a private    *)
(* address for it exactly once, before any boot request, when the profile  *)
(* asks for one (assign_private_ip, or ssh_interface private_ips), on the  *)
(* fresh and on the clone path; and has requested none when the profile    *)
(* asks for none.  The private_ip parameter of the v4 allocation request   *)
(* counts as the request of the fresh path.                                *)
(***************************************************************************)
PrivateIpWanted == vm.assign_private_ip \/ vm.ssh_interface = "private_ips"

PrivateIpReqs ==
    ReqsOf({"POST /networking/ips", "linode.ip.addprivate"})
        \cup {i \in AllocReqs : reqs[i].f}

C22_PrivateIpRequestedOnce ==
    (op = "create" /\ pc = "done" /\ failedAt = 0 /\ (AllocReqs \cup CloneReqs) # {}) =>
        IF PrivateIpWanted
        THEN /\ Cardinality(PrivateIpReqs) = 1
             /\ \A i \in PrivateIpReqs, b \in BootReqs : i < b
        ELSE PrivateIpReqs = {}

(***************************************************************************)
(* C23: a create of the clone path or of the fresh path without disk_size, *)
(* all of whose remote calls were answered successfully, returns its       *)
(* result having fired exactly the events creating, requesting,            *)
(* waiting_for_ssh and created, once each and in this order.               *)
(***************************************************************************)
CreateEvents == <<"creating", "requesting", "waiting_for_ssh", "created">>

CreateUnhindered ==
    /\ op = "create" /\ pc = "done" /\ failedAt = 0
    /\ (AllocReqs \cup CloneReqs) # {}
    /\ ~ExplicitPath

C23_CreateEventsInOrder ==
    CreateUnhindered => outcome.kind = "return" /\ events = CreateEvents

(***************************************************************************)
(* C24: such a create returns a value, `ret', the merge of the bootstrap   *)
(* result and create's own instance facts in which the bootstrap result's  *)
(* value is kept for a key both have.                                      *)
(***************************************************************************)
C24_ReturnMergesBootstrap ==
    CreateUnhindered => outcome = [kind |-> "return", val |-> "ret"]

(***************************************************************************)
(* C25: clone, create_config, get_config_id, boot and get_linode, called   *)
(* without a parameter they require, fail with SaltCloudSystemExit, whose  *)
(* message names the parameters, before any remote call is made.  clone    *)
(* requires linode_id, location or datacenter_id, and size or plan_id;     *)
(* create_config requires name, linode_id, root_disk_id and swap_disk_id;  *)
(* get_config_id, boot and get_linode require a name or a linode_id; boot  *)
(* requires config_id as well.                                             *)
(***************************************************************************)
RequiredMissing ==
    LET k == snap.args IN
    CASE op = "clone" ->
            ~k.linode_id \/ ~(k.location \/ k.datacenter_id) \/ ~(k.size \/ k.plan_id)
      [] op = "create_config" ->
            \E key \in {"name", "linode_id", "root_disk_id", "swap_disk_id"} : ~k[key]
      [] op \in {"get_config_id", "get_linode"} -> ~k.name /\ ~k.linode_id
      [] op = "boot" -> (~k.name /\ ~k.linode_id) \/ ~k.config_id
      [] OTHER -> FALSE

C25_MissingParameterFailsFirst ==
    RequiredMissing =>
        /\ pc = "done"
        /\ outcome = [kind |-> "raise", val |-> "SaltCloudSystemExit"]
        /\ reqs = <<>>

(***************************************************************************)
(* C26: a lookup by name whose listing was obtained returns the first      *)
(* listed instance with that label and raises SaltCloudNotFound exactly    *)
(* when no listed instance has it; a lookup by id that the provider        *)
(* answered returns the instance with that id and raises SaltCloudNotFound *)
(* when the provider has no instance with that id.                         *)
(***************************************************************************)
NameHits == {i \in 1..Len(snap.nodes) : snap.nodes[i].label = snap.name}

NotFound == pc = "done" /\ outcome = [kind |-> "raise", val |-> "SaltCloudNotFound"]

Returned(i) == pc = "done" /\ outcome.kind = "return" /\ snap.found = i

C26_LookupMissIsNotFound ==
    /\ (op = "get_linode" /\ snap.linode_id = 0 /\ snap.name # NONE /\ snap.resp = "ok") =>
          IF NameHits = {} THEN NotFound
          ELSE \E i \in NameHits : Returned(i) /\ \A j \in NameHits : i <= j
    /\ (op = "get_linode" /\ snap.linode_id # 0 /\ snap.resp \in {"ok", "apierr"}) =>
          IF snap.linode_id \notin 1..Len(snap.nodes) THEN NotFound
          ELSE snap.resp = "ok" => Returned(snap.linode_id)

(***************************************************************************)
(* C28: the public and private address lists returned by _get_ips          *)
(* partition the instance's raw address list: every raw address is in      *)
(* exactly one of the two lists, each list keeps the raw order, and no     *)
(* address is returned that is not in the raw list.  v4 puts the addresses *)
(* of the private ranges in the private list; v3 takes the records whose   *)
(* LINODEID is the requested id and puts those with ISPUBLIC 1 in the      *)
(* public list.                                                            *)
(***************************************************************************)
IpsReturned == op = "_get_ips" /\ pc = "done" /\ outcome.kind = "return"

Range(seq) == {seq[i] : i \in 1..Len(seq)}

OfRequested(item) == item.LINODEID = snap.linode_id

RawAddrs ==
    IF api = "v4" THEN snap.raw
    ELSE LET mine == SelectSeq(snap.raw, OfRequested)
         IN [i \in 1..Len(mine) |-> mine[i].IPADDRESS]

RawPrivate ==
    IF api = "v4" THEN Range(snap.raw) \cap PrivateAddrs
    ELSE {item.IPADDRESS : item \in {x \in Range(snap.raw) : OfRequested(x) /\ x.ISPUBLIC # 1}}

InOrderOf(part, whole) ==
    \E f \in [1..Len(part) -> 1..Len(whole)] :
        /\ \A i \in 1..Len(part) : whole[f[i]] = part[i]
        /\ \A i, j \in 1..Len(part) : i < j => f[i] < f[j]

C28_IpsPartitionRaw ==
    IpsReturned =>
        /\ Len(snap.public_ips) + Len(snap.private_ips) = Len(RawAddrs)
        /\ Range(snap.public_ips) \cup Range(snap.private_ips) = Range(RawAddrs)
        /\ Range(snap.public_ips) \cap Range(snap.private_ips) = {}
        /\ InOrderOf(snap.public_ips, RawAddrs)
        /\ InOrderOf(snap.private_ips, RawAddrs)
        /\ Range(snap.private_ips) = RawPrivate

C28_Witness ==
    /\ IpsReturned
    /\ api = "v4"
    /\ snap.public_ips # <<>>
    /\ snap.private_ips # <<>>

(***************************************************************************)
(* C27: _get_status_descr_by_id is total: for each of the seven codes of   *)
(* LINODE_STATUS, -2 to 4, it returns that code's own status, distinct     *)
(* codes giving distinct results, and for a code that is not in the table  *)
(* it returns the Unknown state; it never raises.                          *)
(***************************************************************************)
TableCodes == (-2)..4

OwnStatus(code) ==
    CASE code = -2 -> "Boot Failed (not in use)"
      [] code = -1 -> "Being Created"
      [] code = 0  -> "Brand New"
      [] code = 1  -> "Running"
      [] code = 2  -> "Powered Off"
      [] code = 3  -> "Shutting Down (not in use)"
      [] code = 4  -> "Saved to Disk (not in use)"

C27_StatusMappingTotal ==
    /\ \A a, b \in TableCodes : a # b => OwnStatus(a) # OwnStatus(b)
    /\ op = "_get_status_descr_by_id" =>
          /\ pc = "done"
          /\ outcome.kind = "return"
          /\ outcome.val = IF snap.status_id \in TableCodes
                           THEN OwnStatus(snap.status_id) ELSE "Unknown"

(***************************************************************************)
(* C29: a list_nodes or list_nodes_full call whose requests the provider   *)
(* answered returns an entry for every instance of the account listing,    *)
(* and every entry carries both a public_ips and a private_ips field, also *)
(* for an instance without any address record.                             *)
(***************************************************************************)
ListedOk ==
    /\ op = "list" /\ pc = "done" /\ failedAt = 0
    /\ snap.fn \in {"list_nodes", "list_nodes_full"}

Labels == {snap.nodes[i].label : i \in 1..Len(snap.nodes)}

C29_EntriesCarryBothIpLists ==
    ListedOk =>
        /\ outcome.kind = "return"
        /\ Labels \subseteq DOMAIN snap.ret[snap.fn]
        /\ \A name \in DOMAIN snap.ret[snap.fn] :
              {"public_ips", "private_ips"} \subseteq DOMAIN snap.ret[snap.fn][name]

(***************************************************************************)
(* C30: against one account, with every request answered from it, any two *)
(* of list_nodes_min, list_nodes and list_nodes_full that have returned    *)
(* give the same set of instance names and, for each name, the same id and *)
(* the same state; the entries of list_nodes_full are those of list_nodes  *)
(* with one more field, extra.                                             *)
(***************************************************************************)
SameSnapshot == op = "list" /\ pc = "done" /\ failedAt = 0

C30_ListingsAgree ==
    SameSnapshot =>
        /\ \A a, b \in snap.returned :
              /\ DOMAIN snap.ret[a] = DOMAIN snap.ret[b]
              /\ \A name \in DOMAIN snap.ret[a] :
                    /\ snap.ret[a][name].id = snap.ret[b][name].id
                    /\ snap.ret[a][name].state = snap.ret[b][name].state
        /\ {"list_nodes", "list_nodes_full"} \subseteq snap.returned =>
              \A name \in DOMAIN snap.ret["list_nodes"] :
                 LET node == snap.ret["list_nodes"][name]
                     full == snap.ret["list_nodes_full"][name]
                 IN /\ DOMAIN full = DOMAIN node \cup {"extra"}
                    /\ "extra" \notin DOMAIN node
                    /\ \A key \in DOMAIN node : full[key] = node[key]

C30_Witness ==
    /\ SameSnapshot
    /\ api = "v4"
    /\ snap.returned = ListFns
    /\ Cardinality(Labels) = 2
    /\ \E name \in Labels : snap.ret["list_nodes"][name].public_ips # <<>>

(***************************************************************************)
(* C31: a v3 wait (_wait_for_job, _wait_for_status) called with timeout T  *)
(* whose probes the provider answered ends by returning: True at the first *)
(* probe that shows the target, and False after exactly int(T/5) probes    *)
(* that did not; it never makes more than int(T/5) probes.                 *)
(***************************************************************************)
V3WaitEnded ==
    /\ api = "v3" /\ op \in {"_wait_for_job", "_wait_for_status"}
    /\ pc = "done" /\ failedAt = 0
    /\ outcome # [kind |-> "raise", val |-> "IndexError"]

ProbeReqs == ReqsOf({"linode.job.list", "linode.list"})

C31_V3WaitsBounded ==
    V3WaitEnded =>
        /\ outcome.kind = "return"
        /\ outcome.val \in {"True", "False"}
        /\ Cardinality(ProbeReqs) <= wait.times
        /\ outcome.val = "True" => Cardinality(ProbeReqs) = wait.probes + 1
        /\ outcome.val = "False" =>
              Cardinality(ProbeReqs) = wait.times /\ wait.probes = wait.times

(***************************************************************************)
(* C32: when start has read the instance as running, or stop has read it   *)
(* as stopped, the call is over, every request it made is a read-only      *)
(* lookup of the instance, no boot or shutdown request was sent and no     *)
(* wait loop was entered.                                                  *)
(***************************************************************************)
ReadOnlyKinds == {"GET /linode/instances", "linode.list"}

C32_NoopOnlyLooksUp ==
    AlreadyInState =>
        /\ pc = "done"
        /\ \A i \in 1..Len(reqs) : reqs[i].kind \in ReadOnlyKinds
        /\ ReqsOf({"POST boot", "POST shutdown", "linode.boot", "linode.shutdown"}) = {}
        /\ wait = NoWait

C32_Witness ==
    /\ AlreadyInState /\ pc = "done"
    /\ op = "start" /\ api = "v3"
    /\ Len(reqs) = 2

(***************************************************************************)
(* C33: a _wait_for_job that has returned, and at one of whose probes the  *)
(* job listing reported the awaited job as successful, at whatever         *)
(* position and among whatever other jobs, has returned True.              *)
(***************************************************************************)
C33_ReportedJobIsFound ==
    (wait.target = "job" /\ pc = "done" /\ outcome.kind = "return" /\ wait.seen) =>
        wait.result = "True"

(***************************************************************************)
(* C34: a v4 create that obtained its new instance and whose every request *)
(* was answered has caused exactly one boot of the instance: either the    *)
(* allocation asked the provider to boot it (booted true) or create sent   *)
(* one boot request, never both and never neither.                         *)
(***************************************************************************)
AutoBootReqs == {i \in AllocReqs : reqs[i].n = 1}

C34_ExactlyOneBoot ==
    (api = "v4" /\ CreateUnhindered) =>
        Cardinality(AutoBootReqs) + Cardinality(BootReqs) = 1

(***************************************************************************)
(* C36: when create, with every request answered, has failed its capacity  *)
(* check, no remote resource has been created: no allocation, clone or     *)
(* disk request has been sent.                                             *)
(***************************************************************************)
CapacityFailure ==
    /\ op = "create" /\ pc = "done" /\ failedAt = 0
    /\ outcome = [kind |-> "raise", val |-> "Insufficient"]

C36_CapacityFailureLeavesNothing ==
    CapacityFailure => (AllocReqs \cup CloneReqs \cup DiskReqs) = {}

(***************************************************************************)
(* C37: a destroy of a name that no listed instance has ends in            *)
(* SaltCloudNotFound without a side effect: no delete request was sent, no *)
(* destroyed event was fired and no cache entry was deleted.               *)
(***************************************************************************)
DestroyMissed ==
    /\ op = "destroy" /\ pc = "done" /\ failedAt = 0
    /\ outcome = [kind |-> "raise", val |-> "SaltCloudNotFound"]

C37_MissedDestroyHasNoEffect ==
    DestroyMissed =>
        /\ DeleteReqs = {}
        /\ ~Fired("destroyed")
        /\ ~Fired("delete_minion_cachedir")

(***************************************************************************)
(* C38: a create that obtained its new instance, with every request        *)
(* answered, has asked the provider to give the instance the name of the   *)
(* create spec as its label, on the fresh path and on the clone path.      *)
(***************************************************************************)
LabelReqs == {i \in 1..Len(reqs) : reqs[i].label = vm.name}

C38_LabelIsRequestedName ==
    (op = "create" /\ pc = "done" /\ failedAt = 0 /\ (AllocReqs \cup CloneReqs) # {}) =>
        LabelReqs # {}

(***************************************************************************)
(* C39: a create that obtained its new instance, with every request        *)
(* answered, returns a result whose state was read from the provider after *)
(* the boot: a lookup of the instance follows the boot request.            *)
(***************************************************************************)
InstanceReads == ReqsOf({"GET /linode/instances/id", "linode.list"})

C39_StateReadAfterBoot ==
    CreateUnhindered =>
        /\ outcome.kind = "return"
        /\ \E b \in BootReqs : \E g \in InstanceReads : b < g

(***************************************************************************)
(* C40: a v4 reboot that returns has seen the provider begin the restart:  *)
(* the status that satisfied the wait was reported after the provider had  *)
(* begun to process the reboot request.                                    *)
(***************************************************************************)
RebootReturned ==
    /\ api = "v4" /\ op = "reboot" /\ pc = "done"
    /\ outcome.kind = "return" /\ ReqsOf({"POST reboot"}) # {}

C40_RebootWaitsForRestart == RebootReturned => wait.begun

====
